---- MODULE Spec2Model ----
(***************************************************************************)
(* A model of the data generation engine of milvus_fake_data:              *)
(*   - generate_data_optimized (optimized_writer.py): the partitioning     *)
(*     loop, the per-field column generation, the file writer and the      *)
(*     manifest (specification Spec);                                      *)
(*   - generate_mock_data, _gen_pk_value and _gen_value_by_field           *)
(*     (generator.py): the row-by-row generator (specification SpecMock).  *)
(* Spec runs generate_data_optimized twice with the same arguments, each   *)
(* time in a fresh process and a fresh output directory.                   *)
(***************************************************************************)
EXTENDS Integers, Sequences, FiniteSets, TLC

VARIABLES
    \* ---- arguments of generate_data_optimized (fixed during a behaviour)
    document,           \* the top-level value of the schema document:
                        \* "object" ({"fields": [...]}) or "list" ([...])
    schema,             \* the list of field objects of the schema document
    rows,               \* rows
    format,             \* format
    batch_size,         \* batch_size
    seed,               \* seed: <<>> is None, <<s>> is the integer s
    max_rows_per_file,  \* max_rows_per_file
    max_file_size_mb,   \* max_file_size_mb
    stream,             \* the sample stream of every generator origin
    \* ---- the running call of generate_data_optimized
    run,                \* 1: first call, 2: the independent second call
    pc,                 \* "idle", "entry", "loop", "returned", "raised"
    error,              \* the exception that ended the call, <<>> if none
    rng,                \* numpy's global generator: [origin, pos]
    total_files,        \* total_files
    remaining_rows,     \* remaining_rows
    file_index,         \* file_index
    pk_offset,          \* pk_offset
    all_files_created,  \* all_files_created (the names)
    generated,          \* number of column sets generated so far
    written,            \* the data files in output_dir, in write order
    meta,               \* meta.json in output_dir: <<>> or <<manifest>>
    first,              \* what the first call left: <<>> or <<outcome>>
    \* ---- generator.py
    m_fields,           \* the field objects of the schema file
    m_rows,             \* rows
    m_seed,             \* seed: <<>> is None, <<s>> is the integer s
    m_clock,            \* int(time.time() * 1000) at line 101
    m_pc,               \* "idle", "entry", "rows", "returned", "raised",
                        \* "call", "called"
    m_base_ts,          \* base_ts
    m_idx,              \* idx of the next row
    m_rows_data,        \* rows_data
    m_result,           \* what the call returned or raised: <<>> or <<r>>
    \* ---- ZillizImporter.import_data (zilliz_importer.py)
    data_path,          \* the directory: [exists, origin, meta, parquet]
    collection_name,    \* collection_name: <<>> is None, <<name>> a name
    drop_if_exists,     \* drop_if_exists
    create_index,       \* create_index
    z_batch_size,       \* batch_size
    z_show_progress,    \* show_progress
    field_type,         \* the argument of a direct call of _get_milvus_datatype
    z_pc,               \* "idle", "entry", "insert", "returned", "raised",
                        \* "call", "called"
    z_error,            \* the exception that ended the call, <<>> if none
    final_collection_name,  \* final_collection_name
    total_inserted,     \* total_inserted
    failed_batches,     \* failed_batches
    z_file,             \* index in parquet_files of the file being read
    z_i,                \* i, the offset of the next batch in that file
    collections,        \* the collections of the remote database
    calls,              \* the calls that changed the remote database
    z_result,           \* the returned dictionary: <<>> or <<result>>
    \* ---- MilvusBulkImporter.wait_for_completion (milvus_importer.py)
    timeout,            \* timeout
    w_show_progress,    \* show_progress
    w_run,              \* 1: first call, 2: the call with the other
                        \* show_progress
    w_pc,               \* "idle", "loop", "returned", "raised"
    w_elapsed,          \* time.time() - start_time
    w_polls,            \* the states the polls reported, in order
    job_info,           \* job_info: <<>> while unbound, <<info>> after
    w_result,           \* what the call returned or raised: <<>> or <<r>>
    w_first             \* what the first call left: <<>> or <<outcome>>

args == <<document, schema, rows, format, batch_size, seed, max_rows_per_file,
          max_file_size_mb, stream>>

opt == <<args, run, pc, error, rng, total_files, remaining_rows, file_index,
         pk_offset, all_files_created, generated, written, meta, first>>

m_args == <<m_fields, m_rows, m_seed, m_clock>>

mock == <<m_args, m_pc, m_base_ts, m_idx, m_rows_data, m_result>>

z_args == <<data_path, collection_name, drop_if_exists, create_index,
            z_batch_size, z_show_progress, field_type>>

zilliz == <<z_args, z_pc, z_error, final_collection_name, total_inserted,
            failed_batches, z_file, z_i, collections, calls, z_result>>

waiter == <<timeout, w_show_progress, w_run, w_pc, w_elapsed, w_polls,
            job_info, w_result, w_first>>

others == <<zilliz, waiter>>

vars == <<opt, mock, others>>

(***************************************************************************)
(* Bounds of the model                                                     *)
(***************************************************************************)
MaxRows == 11
MaxRowsPerFile == 4
MaxBatchSize == 1
DrawMod == 2
MaxMockRows == 3
MaxTypeRows == 3
MaxFileRows == 10
MaxImportBatch == 2
MaxFailures == 2
PipelineRows == 2
MaxTimeout == 5
MaxPollDelay == 1

(***************************************************************************)
(* Program constants                                                       *)
(***************************************************************************)
BatchFactor == 10
DefaultMaxRowsPerFile == 1000000
DefaultMaxFileSizeMb == 256
PoolSize == 1000
RandLow == -999999
RandHigh == 999999
NamePad == 5
DefaultDim == 128
DefaultMaxCapacity == 5
FlushEvery == 10
DefaultMaxLength == 65535
FlatMaxDim == 32
IvfMaxDim == 256
SleepSeconds == 2

Min2(a, b) == IF a <= b THEN a ELSE b
Max2(a, b) == IF a >= b THEN a ELSE b
Min3(a, b, c) == Min2(a, Min2(b, c))

RECURSIVE SumSeq(_)
SumSeq(q) == IF q = <<>> THEN 0 ELSE q[1] + SumSeq(Tail(q))

(***************************************************************************)
(* Text.  A string is the sequence of its characters.                      *)
(***************************************************************************)
LowerLetters == <<"a", "b", "c", "d", "e", "f", "g", "h", "i", "j", "k", "l", "m", "n", "o", "p", "q", "r", "s", "t", "u", "v", "w", "x", "y", "z">>
UpperLetters == <<"A", "B", "C", "D", "E", "F", "G", "H", "I", "J", "K", "L", "M", "N", "O", "P", "Q", "R", "S", "T", "U", "V", "W", "X", "Y", "Z">>

IndexIn(c, letters) == CHOOSE i \in 1..Len(letters) : letters[i] = c
IsIn(c, letters) == \E i \in 1..Len(letters) : letters[i] = c

\* str.upper() and str.lower()
Upper(s) == [i \in 1..Len(s) |->
                IF IsIn(s[i], LowerLetters)
                THEN UpperLetters[IndexIn(s[i], LowerLetters)] ELSE s[i]]
Lower(s) == [i \in 1..Len(s) |->
                IF IsIn(s[i], UpperLetters)
                THEN LowerLetters[IndexIn(s[i], UpperLetters)] ELSE s[i]]

\* `sub in s`
Contains(s, sub) ==
    \E i \in 1..(Len(s) - Len(sub) + 1) : SubSeq(s, i, i + Len(sub) - 1) = sub

\* s.replace(old, new), old not empty
RECURSIVE Replace(_, _, _)
Replace(s, old, new) ==
    IF Len(s) < Len(old) THEN s
    ELSE IF SubSeq(s, 1, Len(old)) = old
         THEN new \o Replace(SubSeq(s, Len(old) + 1, Len(s)), old, new)
         ELSE <<s[1]>> \o Replace(Tail(s), old, new)

Digit(d) == <<"0", "1", "2", "3", "4", "5", "6", "7", "8", "9">>[d + 1]

\* str(n) of a Python int
RECURSIVE Str(_)
Str(n) ==
    IF n < 0 THEN <<"-">> \o Str(0 - n)
    ELSE IF n < 10 THEN <<Digit(n)>>
    ELSE Str(n \div 10) \o <<Digit(n % 10)>>

\* the type tags and format names the program compares with
Int8T == <<"I", "n", "t", "8">>
Int16T == <<"I", "n", "t", "1", "6">>
Int32T == <<"I", "n", "t", "3", "2">>
Int64T == <<"I", "n", "t", "6", "4">>
FloatT == <<"F", "l", "o", "a", "t">>
DoubleT == <<"D", "o", "u", "b", "l", "e">>
BoolT == <<"B", "o", "o", "l">>
VarCharT == <<"V", "a", "r", "C", "h", "a", "r">>
StringT == <<"S", "t", "r", "i", "n", "g">>
JsonT == <<"J", "S", "O", "N">>
ArrayT == <<"A", "r", "r", "a", "y">>
FloatVectorT == <<"F", "l", "o", "a", "t", "V", "e", "c", "t", "o", "r">>
BinaryVectorT == <<"B", "i", "n", "a", "r", "y", "V", "e", "c", "t", "o", "r">>
Int8VectorT == <<"I", "n", "t", "8", "V", "e", "c", "t", "o", "r">>
Float16VectorT == <<"F", "l", "o", "a", "t", "1", "6", "V", "e", "c", "t", "o", "r">>
BFloat16VectorT == <<"B", "F", "l", "o", "a", "t", "1", "6", "V", "e", "c", "t", "o", "r">>
SparseFloatVectorT == <<"S", "p", "a", "r", "s", "e", "F", "l", "o", "a", "t", "V", "e", "c", "t", "o", "r">>
UnknownVectorT == <<"U", "n", "k", "n", "o", "w", "n", "V", "e", "c", "t", "o", "r">>
UnknownTypeT == <<"U", "n", "k", "n", "o", "w", "n", "T", "y", "p", "e">>
VectorWord == <<"V", "e", "c", "t", "o", "r">>
ParquetF == <<"p", "a", "r", "q", "u", "e", "t">>
JsonF == <<"j", "s", "o", "n">>

\* string_pool[k] = f"text_{k % 1000}"
PoolString(k) == <<"t", "e", "x", "t", "_">> \o Str(k % PoolSize)

(***************************************************************************)
(* Schemas.  A field object is a record holding the keys the document      *)
(* gives; Get is dict.get(key, default).                                   *)
(***************************************************************************)
Get(f, key, default) == IF key \in DOMAIN f THEN f[key] ELSE default

SchemaIdVec == <<[name |-> "id", type |-> Int64T, is_primary |-> TRUE],
                 [name |-> "vec", type |-> FloatVectorT, dim |-> 2]>>
SchemaAutoId == <<[name |-> "id", type |-> Int64T, is_primary |-> TRUE,
                   auto_id |-> TRUE],
                  [name |-> "vec", type |-> FloatVectorT, dim |-> 2]>>
SchemaTextPk == <<[name |-> "key", type |-> VarCharT, is_primary |-> TRUE,
                   max_length |-> 16],
                  [name |-> "n", type |-> Int64T]>>
SchemaUnknown == <<[name |-> "id", type |-> Int64T, is_primary |-> TRUE],
                   [name |-> "u", type |-> UnknownVectorT, dim |-> 2]>>
SchemaMixed == <<[name |-> "vec", type |-> BinaryVectorT, dim |-> 8],
                 [name |-> "id", type |-> Int64T, is_primary |-> TRUE],
                 [name |-> "age", type |-> Int32T],
                 [name |-> "ok", type |-> BoolT]>>

Schemas == {SchemaIdVec, SchemaAutoId, SchemaTextPk, SchemaUnknown, SchemaMixed}

Formats == {ParquetF, <<"J", "S", "O", "N">>, <<"c", "s", "v">>}

NoSeed == <<>>
Seeds == {NoSeed, <<0>>, <<1>>}

\* Python truth value of `seed` (None and 0 are false)
Truthy(sd) == sd # NoSeed /\ sd[1] # 0

(***************************************************************************)
(* numpy's global generator.  A generator state is the origin of its       *)
(* stream (the seed it was seeded with, or the entropy of the process) and *)
(* the number of samples already consumed; the same origin and position    *)
(* yield the same samples.  A sample is a number in 0..DrawMod-1 that the  *)
(* drawing function scales to its range.                                   *)
(***************************************************************************)
ProcessOrigin(r) == <<"os", r>>
SeedOrigin(s) == <<"seed", s>>

Sample(g, k) == (stream[g.origin] + g.pos + k) % DrawMod

\* the next n samples
Samples(g, n) == [i \in 1..n |-> Sample(g, i - 1)]

Advance(g, n) == [g EXCEPT !.pos = @ + n]

\* lines 64-65: np.random.seed(seed) when `if seed:` holds
SeedRng(g, sd) == IF Truthy(sd) THEN [origin |-> SeedOrigin(sd[1]), pos |-> 0] ELSE g

\* a sample u scaled as np.random.randint(low, high) scales it: low <= v < high
Scale(u, low, high) == low + (u * (high - 1 - low)) \div (DrawMod - 1)

(***************************************************************************)
(* Column generation of one loop iteration of generate_data_optimized.     *)
(* A column is [name, kind, vals]: vals holds one entry per row.  For the  *)
(* float kinds and the float vector kinds an entry is the sample (the      *)
(* samples) the stored value is computed from.                             *)
(***************************************************************************)
Column(n, k, v) == [name |-> n, kind |-> k, vals |-> v]

\* what the loop body adds to `data`, and the generator state it leaves
Gen(cs, g) == [cols |-> cs, rng |-> g]

\* the Int64 branch with the keys of every file starting at 0
Int64ColumnNoOffset(f, n, off, g) ==
    IF Get(f, "is_primary", FALSE) /\ ~Get(f, "auto_id", FALSE)
    THEN Gen(<<Column(f.name, "arange", [i \in 1..n |-> i - 1])>>, g)
    ELSE Gen(<<Column(f.name, "randint64",
                      [i \in 1..n |-> Scale(Sample(g, i - 1), RandLow, RandHigh)])>>,
             Advance(g, n))

\* lines 103-112: the Int64 branch
Int64Column(f, n, off, g) ==
    IF Get(f, "is_primary", FALSE) /\ ~Get(f, "auto_id", FALSE)
    THEN Gen(<<Column(f.name, "arange", [i \in 1..n |-> off + i - 1])>>, g)
    ELSE Gen(<<Column(f.name, "randint64",
                      [i \in 1..n |-> Scale(Sample(g, i - 1), RandLow, RandHigh)])>>,
             Advance(g, n))

\* lines 129-137: the VarChar / String branch
VarCharColumn(f, n, off, g) ==
    Gen(<<Column(f.name, "pool",
                 [i \in 1..n |-> PoolString(Scale(Sample(g, i - 1), 0, PoolSize))])>>,
        Advance(g, n))

\* lines 139-263: the JSON branch (four draws of n samples; the document
\* embeds pk_offset + i and follows the drawn pattern random_types[i])
JsonColumn(f, n, off, g) ==
    Gen(<<Column(f.name, "json",
                 [i \in 1..n |-> [id |-> off + i - 1,
                                  json_type |-> Scale(Sample(g, i - 1), 0, 5)]])>>,
        Advance(g, 4 * n))

\* the Array branch with lengths drawn from 0..max_capacity + 1
ArrayColumnLonger(f, n, off, g) ==
    LET element_type == Get(f, "element_type", Int32T)
        max_capacity == Get(f, "max_capacity", DefaultMaxCapacity)
        lengths == [i \in 1..n |-> Scale(Sample(g, i - 1), 0, max_capacity + 2)]
        g1 == Advance(g, n)
        total_elements == SumSeq(lengths)
        start(i) == SumSeq(SubSeq(lengths, 1, i - 1))
        str_templates == [j \in 1..max_capacity |-> <<"i", "t", "e", "m", "_">> \o Str(j - 1)]
    IN  IF element_type \in {Int32T, Int64T}
        THEN Gen(<<Column(f.name, "int_array",
                          [i \in 1..n |->
                              [j \in 1..lengths[i] |->
                                  Scale(Sample(g1, start(i) + j - 1), -999, 999)]])>>,
                 Advance(g1, total_elements))
        ELSE Gen(<<Column(f.name, "str_array",
                          [i \in 1..n |->
                              SubSeq(str_templates, 1, Min2(lengths[i], max_capacity))])>>,
                 g1)

\* lines 265-298: the Array branch
ArrayColumn(f, n, off, g) ==
    LET element_type == Get(f, "element_type", Int32T)
        max_capacity == Get(f, "max_capacity", DefaultMaxCapacity)
        lengths == [i \in 1..n |-> Scale(Sample(g, i - 1), 0, max_capacity + 1)]
        g1 == Advance(g, n)
        total_elements == SumSeq(lengths)
        start(i) == SumSeq(SubSeq(lengths, 1, i - 1))
        str_templates == [j \in 1..max_capacity |-> <<"i", "t", "e", "m", "_">> \o Str(j - 1)]
    IN  IF element_type \in {Int32T, Int64T}
        THEN Gen(<<Column(f.name, "int_array",
                          [i \in 1..n |->
                              [j \in 1..lengths[i] |->
                                  Scale(Sample(g1, start(i) + j - 1), -999, 999)]])>>,
                 Advance(g1, total_elements))
        ELSE Gen(<<Column(f.name, "str_array",
                          [i \in 1..n |->
                              SubSeq(str_templates, 1, Min2(lengths[i], max_capacity))])>>,
                 g1)

\* lines 99-298: one pass of the body of the scalar loop
ScalarColumn(f, n, off, g) ==
    IF f.type = Int64T THEN Int64Column(f, n, off, g)
    ELSE IF f.type = FloatT THEN
        Gen(<<Column(f.name, "float32", Samples(g, n))>>, Advance(g, n))
    ELSE IF f.type = DoubleT THEN
        Gen(<<Column(f.name, "float64", Samples(g, n))>>, Advance(g, n))
    ELSE IF f.type = BoolT THEN
        Gen(<<Column(f.name, "bool",
                     [i \in 1..n |-> Scale(Sample(g, i - 1), 0, 2) = 1])>>,
            Advance(g, n))
    ELSE IF f.type \in {VarCharT, StringT} THEN VarCharColumn(f, n, off, g)
    ELSE IF f.type = JsonT THEN JsonColumn(f, n, off, g)
    ELSE IF f.type = ArrayT THEN ArrayColumn(f, n, off, g)
    ELSE Gen(<<>>, g)

\* the samples of row i of an n x width draw
RowSamples(g, i, width) == [j \in 1..width |-> Sample(g, (i - 1) * width + j - 1)]

\* line 308: a draw of the standard normal distribution, as a point of an
\* integer grid (the draw is 0 with probability 0)
randn(u) == IF u % 2 = 0 THEN u + 1 ELSE 0 - u

RECURSIVE SumSq(_)
SumSq(v) == IF v = <<>> THEN 0 ELSE v[1] * v[1] + SumSq(Tail(v))

\* lines 312-313: v / norm(v), kept exact: component j is num[j] / sqrt(den2)
Normalized(v) == [num |-> v, den2 |-> SumSq(v)]

\* lines 301-350: one pass of the body of the vector loop
VectorColumn(f, n, g) ==
    LET dim == Get(f, "dim", DefaultDim)
        byte_dim == dim \div 8
    IN  IF f.type = FloatVectorT THEN
            Gen(<<Column(f.name, "unit_float32",
                         [i \in 1..n |->
                             Normalized([j \in 1..dim |->
                                            randn(RowSamples(g, i, dim)[j])])])>>,
                Advance(g, n * dim))
        ELSE IF f.type = BinaryVectorT THEN
            Gen(<<Column(f.name, "uint8",
                         [i \in 1..n |->
                             [j \in 1..byte_dim |->
                                 Scale(RowSamples(g, i, byte_dim)[j], 0, 256)]])>>,
                Advance(g, n * byte_dim))
        ELSE IF f.type = Int8VectorT THEN
            Gen(<<Column(f.name, "int8",
                         [i \in 1..n |->
                             [j \in 1..dim |->
                                 Scale(RowSamples(g, i, dim)[j], -128, 128)]])>>,
                Advance(g, n * dim))
        ELSE IF f.type \in {Float16VectorT, BFloat16VectorT} THEN
            Gen(<<Column(f.name,
                         IF f.type = Float16VectorT THEN "unit_float16_bytes"
                                                    ELSE "unit_bfloat16_bytes",
                         [i \in 1..n |-> RowSamples(g, i, dim)])>>,
                Advance(g, n * dim))
        ELSE Gen(<<>>, g)

\* line 72: `"Vector" in field["type"]`
IsVectorField(f) == Contains(f.type, VectorWord)

\* lines 68-75: the pre-analysis of the schema
vector_fields(fields) == SelectSeq(fields, IsVectorField)
scalar_fields(fields) == SelectSeq(fields, LAMBDA f : ~IsVectorField(f))

\* lines 99-298: the scalar loop
RECURSIVE ScalarLoop(_, _, _, _)
ScalarLoop(fs, n, off, g) ==
    IF fs = <<>> THEN Gen(<<>>, g)
    ELSE LET one == ScalarColumn(fs[1], n, off, g)
             rest == ScalarLoop(Tail(fs), n, off, one.rng)
         IN  Gen(one.cols \o rest.cols, rest.rng)

\* lines 301-350: the vector loop
RECURSIVE VectorLoop(_, _, _)
VectorLoop(fs, n, g) ==
    IF fs = <<>> THEN Gen(<<>>, g)
    ELSE LET one == VectorColumn(fs[1], n, g)
             rest == VectorLoop(Tail(fs), n, one.rng)
         IN  Gen(one.cols \o rest.cols, rest.rng)

\* lines 95-356: `data` of one iteration, the scalar columns then the vector ones
GenerateBatch(fields, n, off, g) ==
    LET sc == ScalarLoop(scalar_fields(fields), n, off, g)
        vc == VectorLoop(vector_fields(fields), n, sc.rng)
    IN  Gen(sc.cols \o vc.cols, vc.rng)

(***************************************************************************)
(* The file writer and the manifest                                        *)
(***************************************************************************)
\* f"{n:05d}"
Pad5(n) ==
    LET d == Str(n)
    IN  IF Len(d) >= NamePad THEN d ELSE [i \in 1..(NamePad - Len(d)) |-> "0"] \o d

\* the name of a file numbered from 0
FileNameZeroBased(total, index, ext) ==
    IF total = 1 THEN <<"d", "a", "t", "a", ".">> \o ext
    ELSE <<"d", "a", "t", "a", "-">> \o Pad5(index) \o <<"-", "o", "f", "-">> \o Pad5(total) \o <<".">> \o ext

\* lines 362-366 and 382-386: the name of the file written for file_index
FileName(total, index, ext) ==
    IF total = 1 THEN <<"d", "a", "t", "a", ".">> \o ext
    ELSE <<"d", "a", "t", "a", "-">> \o Pad5(index + 1) \o <<"-", "o", "f", "-">> \o Pad5(total) \o <<".">> \o ext

\* len(pd.DataFrame(data)): the common length of the columns
FrameRows(cols, n) == IF cols = <<>> THEN 0 ELSE n

\* lines 356-400: the file holding the frame of `data`
DataFile(name, cols, n) ==
    [name |-> name, rows |-> FrameRows(cols, n), columns |-> cols]

\* lines 361, 381: the branch the writer takes
WriterOf(fmt) ==
    IF Lower(fmt) = ParquetF THEN <<ParquetF>>
    ELSE IF Lower(fmt) = JsonF THEN <<JsonF>>
    ELSE <<>>

Supported(fmt) == WriterOf(fmt) # <<>>

\* lines 54-55: json.load(f), the schema document
SchemaDocument ==
    IF document = "object"
    THEN [collection_name |-> "demo", fields |-> schema]
    ELSE schema

\* line 426: the name of the manifest file
MetaFile == <<"m", "e", "t", "a", ".", "j", "s", "o", "n">>

\* the manifest with the file count planned at line 79
ManifestPlannedCount(names) ==
    [name |-> MetaFile,
     data |-> [schema |-> SchemaDocument,
               generation_info |->
                   [total_rows |-> rows,
                    format |-> format,
                    seed |-> seed,
                    data_files |-> names,
                    file_count |-> total_files,
                    max_rows_per_file |-> max_rows_per_file,
                    max_file_size_mb |-> max_file_size_mb]]]

\* lines 426-447: meta.json, without the timing fields
Manifest(names) ==
    [name |-> MetaFile,
     data |-> [schema |-> SchemaDocument,
               generation_info |->
                   [total_rows |-> rows,
                    format |-> format,
                    seed |-> seed,
                    data_files |-> names,
                    file_count |-> Len(names),
                    max_rows_per_file |-> max_rows_per_file,
                    max_file_size_mb |-> max_file_size_mb]]]

(***************************************************************************)
(* generate_data_optimized                                                 *)
(***************************************************************************)
\* line 78
effective_max_rows == Min2(max_rows_per_file, batch_size * BatchFactor)

\* line 79
TotalFiles(r, e) == Max2(1, (r + e - 1) \div e)

\* line 91 without remaining_rows
current_batch_rows_whole == Min2(max_rows_per_file, batch_size * BatchFactor)

\* line 91 without batch_size * 10
current_batch_rows_uncapped == Min2(remaining_rows, max_rows_per_file)

\* line 91
current_batch_rows == Min3(remaining_rows, max_rows_per_file, batch_size * BatchFactor)

UsedOrigins(sd) ==
    IF Truthy(sd) THEN {SeedOrigin(sd[1])} ELSE {ProcessOrigin(1), ProcessOrigin(2)}

\* the state of a process that is about to call generate_data_optimized
FreshCall(r) ==
    /\ run = r
    /\ pc = "entry"
    /\ error = <<>>
    /\ rng = [origin |-> ProcessOrigin(r), pos |-> 0]
    /\ total_files = 0
    /\ remaining_rows = 0
    /\ file_index = 0
    /\ pk_offset = 0
    /\ all_files_created = <<>>
    /\ generated = 0
    /\ written = <<>>
    /\ meta = <<>>

ZillizIdle ==
    /\ data_path = [exists |-> FALSE, origin |-> "none", meta |-> <<>>,
                    parquet |-> <<>>]
    /\ collection_name = <<>>
    /\ drop_if_exists = FALSE
    /\ create_index = FALSE
    /\ z_batch_size = 1
    /\ z_show_progress = FALSE
    /\ field_type = <<>>
    /\ z_pc = "idle"
    /\ z_error = <<>>
    /\ final_collection_name = <<>>
    /\ total_inserted = 0
    /\ failed_batches = <<>>
    /\ z_file = 0
    /\ z_i = 0
    /\ collections = {}
    /\ calls = <<>>
    /\ z_result = <<>>

WaiterIdle ==
    /\ timeout = 0
    /\ w_show_progress = FALSE
    /\ w_run = 0
    /\ w_pc = "idle"
    /\ w_elapsed = 0
    /\ w_polls = <<>>
    /\ job_info = <<>>
    /\ w_result = <<>>
    /\ w_first = <<>>

OthersIdle == ZillizIdle /\ WaiterIdle

MockIdle ==
    /\ m_fields = <<>>
    /\ m_rows = 0
    /\ m_seed = NoSeed
    /\ m_clock = 0
    /\ m_pc = "idle"
    /\ m_base_ts = 0
    /\ m_idx = 0
    /\ m_rows_data = <<>>
    /\ m_result = <<>>

Init ==
    /\ document = "object"
    /\ schema \in Schemas
    /\ rows \in 0..MaxRows
    /\ format \in Formats
    /\ batch_size \in 1..MaxBatchSize
    /\ seed \in Seeds
    /\ max_rows_per_file \in (0..MaxRowsPerFile) \cup {DefaultMaxRowsPerFile}
    /\ max_file_size_mb = DefaultMaxFileSizeMb
    /\ stream \in [UsedOrigins(seed) -> 0..(DrawMod - 1)]
    /\ FreshCall(1)
    /\ first = <<>>
    /\ MockIdle
    /\ OthersIdle

\* lines 52-79, when line 58 calls .get on a list or line 79 divides by zero
EntryRaises ==
    /\ pc = "entry"
    /\ (document = "list" \/ effective_max_rows = 0)
    /\ pc' = "raised"
    /\ error' = IF document = "list"
                THEN <<[type |-> "AttributeError", arg |-> <<"'", "l", "i", "s", "t", "'", " ", "o", "b", "j", "e", "c", "t", " ", "h", "a", "s", " ", "n", "o", " ", "a", "t", "t", "r", "i", "b", "u", "t", "e", " ", "'", "g", "e", "t", "'">>]>>
                ELSE <<[type |-> "ZeroDivisionError", arg |-> <<>>]>>
    /\ rng' = IF document = "list" THEN rng ELSE SeedRng(rng, seed)
    /\ UNCHANGED <<args, run, total_files, remaining_rows, file_index, pk_offset,
                   all_files_created, generated, written, meta, first, mock, others>>

\* lines 52-87
Entry ==
    /\ pc = "entry"
    /\ document = "object"
    /\ effective_max_rows # 0
    /\ rng' = SeedRng(rng, seed)
    /\ total_files' = TotalFiles(rows, effective_max_rows)
    /\ remaining_rows' = rows
    /\ file_index' = 0
    /\ pk_offset' = 0
    /\ all_files_created' = <<>>
    /\ pc' = "loop"
    /\ UNCHANGED <<args, run, error, generated, written, meta, first, mock, others>>

\* lines 89-423: an iteration that writes its file
Iterate ==
    /\ pc = "loop"
    /\ remaining_rows > 0
    /\ Supported(format)
    /\ LET n == current_batch_rows
           batch == GenerateBatch(schema, n, pk_offset, rng)
           name == FileName(total_files, file_index, WriterOf(format)[1])
       IN  /\ rng' = batch.rng
           /\ generated' = generated + 1
           /\ written' = Append(written, DataFile(name, batch.cols, n))
           /\ all_files_created' = Append(all_files_created, name)
           /\ remaining_rows' = remaining_rows - n
           /\ pk_offset' = pk_offset + n
           /\ file_index' = file_index + 1
    /\ UNCHANGED <<args, run, pc, error, total_files, meta, first, mock, others>>

\* the failing iteration of a run that writes the manifest before it raises
IterateRaisesWithMeta ==
    /\ pc = "loop"
    /\ remaining_rows > 0
    /\ ~Supported(format)
    /\ LET n == current_batch_rows
           batch == GenerateBatch(schema, n, pk_offset, rng)
       IN  /\ rng' = batch.rng
           /\ generated' = generated + 1
    /\ pc' = "raised"
    /\ error' = <<[type |-> "ValueError", arg |-> <<"U", "n", "s", "u", "p", "p", "o", "r", "t", "e", "d", " ", "f", "o", "r", "m", "a", "t", ":", " ">> \o format]>>
    /\ meta' = <<Manifest(all_files_created)>>
    /\ UNCHANGED <<args, run, total_files, remaining_rows, file_index, pk_offset,
                   all_files_created, written, first, mock, others>>

\* lines 89-403: the iteration that reaches the raise of line 403
IterateRaises ==
    /\ pc = "loop"
    /\ remaining_rows > 0
    /\ ~Supported(format)
    /\ LET n == current_batch_rows
           batch == GenerateBatch(schema, n, pk_offset, rng)
       IN  /\ rng' = batch.rng
           /\ generated' = generated + 1
    /\ pc' = "raised"
    /\ error' = <<[type |-> "ValueError", arg |-> <<"U", "n", "s", "u", "p", "p", "o", "r", "t", "e", "d", " ", "f", "o", "r", "m", "a", "t", ":", " ">> \o format]>>
    /\ UNCHANGED <<args, run, total_files, remaining_rows, file_index, pk_offset,
                   all_files_created, written, meta, first, mock, others>>

\* lines 425-454
WriteMeta ==
    /\ pc = "loop"
    /\ remaining_rows <= 0
    /\ meta' = <<Manifest(all_files_created)>>
    /\ pc' = "returned"
    /\ UNCHANGED <<args, run, error, rng, total_files, remaining_rows, file_index,
                   pk_offset, all_files_created, generated, written, first, mock, others>>

Ended == pc \in {"returned", "raised"}

\* what a call left behind
Outcome == [pc |-> pc, error |-> error, written |-> written, meta |-> meta]

\* the same call again, in a new process and a new output directory
Rerun ==
    /\ run = 1
    /\ Ended
    /\ first' = <<Outcome>>
    /\ run' = 2
    /\ pc' = "entry"
    /\ error' = <<>>
    /\ rng' = [origin |-> ProcessOrigin(2), pos |-> 0]
    /\ total_files' = 0
    /\ remaining_rows' = 0
    /\ file_index' = 0
    /\ pk_offset' = 0
    /\ all_files_created' = <<>>
    /\ generated' = 0
    /\ written' = <<>>
    /\ meta' = <<>>
    /\ UNCHANGED <<args, mock, others>>

Next ==
    \/ Entry
    \/ EntryRaises
    \/ Iterate
    \/ IterateRaises
    \/ WriteMeta
    \/ Rerun

Spec == Init /\ [][Next]_vars

(***************************************************************************)
(* generator.py.  A generated value is [kind, v]; a sample u in            *)
(* 0..DrawMod-1 stands for the outcome of the random draws of one call.    *)
(***************************************************************************)
Value(k, v) == [kind |-> k, v |-> v]
Ok(v) == [ok |-> TRUE, val |-> v]
Raise(t, a) == [ok |-> FALSE, err |-> [type |-> t, arg |-> a]]

\* a sample u scaled as random.randint(low, high) scales it: low <= v <= high
ScaleIncl(u, low, high) == low + (u * (high - low)) \div (DrawMod - 1)

\* lines 133-137
gen_pk_value(f_type, base_ts, idx) ==
    IF f_type = Upper(Int64T) THEN Value("int", base_ts + idx)
    ELSE Value("str", Str(base_ts + idx))

\* lines 142-145
CanonicalType(t) ==
    LET f_type == Upper(t)
    IN  IF Contains(f_type, <<"V", "E", "C", "T", "O", "R">>) /\ ~Contains(f_type, <<"_", "V", "E", "C", "T", "O", "R">>)
        THEN Replace(f_type, <<"V", "E", "C", "T", "O", "R">>, <<"_", "V", "E", "C", "T", "O", "R">>)
        ELSE f_type

\* faker.text(max_nb_chars): at most max_nb_chars characters; Faker refuses
\* to generate a text of fewer than 5 characters
FakerText(max_nb_chars, u) ==
    IF max_nb_chars < 5
    THEN Raise("ValueError", <<"t", "e", "x", "t", "(", ")", " ", "c", "a", "n", " ", "o", "n", "l", "y", " ", "g", "e", "n", "e", "r", "a", "t", "e", " ", "t", "e", "x", "t", " ", "o", "f", " ", "a", "t", " ", "l", "e", "a", "s", "t", " ", "5", " ", "c", "h", "a", "r", "a", "c", "t", "e", "r", "s">>)
    ELSE Ok(Value("str", [i \in 1..ScaleIncl(u, 1, max_nb_chars) |-> "x"]))

\* lines 140-186
RECURSIVE gen_value_by_field(_, _)
gen_value_by_field(field, u) ==
    LET f_type == CanonicalType(field.type)
        dim == Get(field, "dim", 8)
        max_length == Get(field, "max_length", 128)
    IN  IF f_type = <<"B", "O", "O", "L">> THEN Ok(Value("bool", Scale(u, 0, 2) = 1))
        ELSE IF f_type \in {<<"I", "N", "T", "8">>, <<"I", "N", "T", "1", "6">>, <<"I", "N", "T", "3", "2">>, <<"I", "N", "T", "6", "4">>} THEN
            LET low == Get(field, "min", 0)
                high == Get(field, "max", 1000000)
            IN  IF low > high THEN Raise("ValueError", <<"e", "m", "p", "t", "y", " ", "r", "a", "n", "g", "e", " ", "f", "o", "r", " ", "r", "a", "n", "d", "r", "a", "n", "g", "e", "(", ")">>)
                ELSE Ok(Value("int", ScaleIncl(u, low, high)))
        ELSE IF f_type \in {<<"F", "L", "O", "A", "T">>, <<"D", "O", "U", "B", "L", "E">>} THEN
            LET low == Get(field, "min", 0)
                high == Get(field, "max", 1000)
            IN  Ok(Value("float", ScaleIncl(u, low, high)))
        ELSE IF f_type \in {<<"V", "A", "R", "C", "H", "A", "R">>, <<"S", "T", "R", "I", "N", "G">>} THEN
            LET safe_max_length == (max_length * 8) \div 10
            IN  FakerText(safe_max_length, u)
        ELSE IF f_type = <<"J", "S", "O", "N">> THEN
            LET t == FakerText(16, u)
            IN  IF t.ok THEN Ok(Value("json", [key |-> t.val])) ELSE t
        ELSE IF f_type = <<"A", "R", "R", "A", "Y">> THEN
            LET element_type == Upper(Get(field, "element_type", <<"I", "N", "T", "3", "2">>))
                max_capacity == Get(field, "max_capacity", DefaultMaxCapacity)
                arr_len == ScaleIncl(u, 1, max_capacity)
                element_field ==
                    IF element_type \in {<<"V", "A", "R", "C", "H", "A", "R">>, <<"S", "T", "R", "I", "N", "G">>}
                       /\ "max_length" \in DOMAIN field
                    THEN [type |-> element_type, max_length |-> field.max_length]
                    ELSE [type |-> element_type]
                element == gen_value_by_field(element_field, u)
            IN  IF max_capacity < 1
                THEN Raise("ValueError", <<"e", "m", "p", "t", "y", " ", "r", "a", "n", "g", "e", " ", "f", "o", "r", " ", "r", "a", "n", "d", "r", "a", "n", "g", "e", "(", ")">>)
                ELSE IF ~element.ok THEN element
                ELSE Ok(Value("list", [i \in 1..arr_len |-> element.val]))
        ELSE IF f_type = <<"B", "I", "N", "A", "R", "Y", "_", "V", "E", "C", "T", "O", "R">> THEN
            Ok(Value("list", [i \in 1..dim |-> Value("int", Scale(u, 0, 2))]))
        ELSE IF f_type = <<"I", "N", "T", "8", "_", "V", "E", "C", "T", "O", "R">> THEN
            LET b == Scale(u, 0, 256)
            IN  Ok(Value("list", [i \in 1..dim |->
                                     Value("int", IF b >= 128 THEN b - 256 ELSE b)]))
        ELSE IF f_type \in {<<"F", "L", "O", "A", "T", "_", "V", "E", "C", "T", "O", "R">>, <<"F", "L", "O", "A", "T", "1", "6", "_", "V", "E", "C", "T", "O", "R">>, <<"B", "F", "L", "O", "A", "T", "1", "6", "_", "V", "E", "C", "T", "O", "R">>} THEN
            Ok(Value("list", [i \in 1..dim |-> Value("float01", u)]))
        ELSE IF f_type = <<"S", "P", "A", "R", "S", "E", "_", "F", "L", "O", "A", "T", "_", "V", "E", "C", "T", "O", "R">> THEN
            Ok(Value("list", [i \in 1..dim |-> Value("int", Scale(u, 0, 2))]))
        ELSE Raise("ValueError", <<"U", "n", "s", "u", "p", "p", "o", "r", "t", "e", "d", " ", "f", "i", "e", "l", "d", " ", "t", "y", "p", "e", ":", " ">> \o f_type)

\* line 104
PkName(fields) ==
    LET p == SelectSeq(fields, LAMBDA f : Get(f, "is_primary", FALSE))
    IN  IF p = <<>> THEN <<>> ELSE <<p[1].name>>

NoneValue == Value("None", <<>>)

\* lines 107-122: what one field adds to `row`: nothing, an entry, or a raise
RowEntry(f, pk, base_ts, idx, u, null) ==
    IF Get(f, "auto_id", FALSE) THEN Ok(<<>>)
    ELSE IF pk # <<>> /\ f.name = pk[1]
         THEN Ok(<<[name |-> f.name, value |-> gen_pk_value(Upper(f.type), base_ts, idx)]>>)
    ELSE IF Get(f, "nullable", FALSE) /\ null
         THEN Ok(<<[name |-> f.name, value |-> NoneValue]>>)
    ELSE LET r == gen_value_by_field(f, u)
         IN  IF r.ok THEN Ok(<<[name |-> f.name, value |-> r.val]>>) ELSE r

\* lines 106-123: the row of index idx
RECURSIVE RowOf(_, _, _, _, _, _)
RowOf(fs, pk, base_ts, idx, u, null) ==
    IF fs = <<>> THEN Ok(<<>>)
    ELSE LET one == RowEntry(fs[1], pk, base_ts, idx, u, null)
         IN  IF ~one.ok THEN one
             ELSE LET rest == RowOf(Tail(fs), pk, base_ts, idx, u, null)
                  IN  IF ~rest.ok THEN rest ELSE Ok(one.val \o rest.val)

\* lines 95-101
BaseTs(sd, clock) == IF sd # NoSeed THEN (sd[1] * 1000) * 262144 ELSE clock * 262144

\* validate_schema_data (models.py): the type tag of every field is in the
\* vocabulary, at most one field is primary, and a primary field has an
\* integer or a text type
KnownTypes == {<<"B", "O", "O", "L">>, <<"I", "N", "T", "8">>, <<"I", "N", "T", "1", "6">>, <<"I", "N", "T", "3", "2">>, <<"I", "N", "T", "6", "4">>, <<"F", "L", "O", "A", "T">>,
               <<"D", "O", "U", "B", "L", "E">>, <<"V", "A", "R", "C", "H", "A", "R">>, <<"S", "T", "R", "I", "N", "G">>, <<"J", "S", "O", "N">>, <<"A", "R", "R", "A", "Y">>,
               <<"B", "I", "N", "A", "R", "Y", "_", "V", "E", "C", "T", "O", "R">>, <<"I", "N", "T", "8", "_", "V", "E", "C", "T", "O", "R">>, <<"F", "L", "O", "A", "T", "_", "V", "E", "C", "T", "O", "R">>,
               <<"F", "L", "O", "A", "T", "1", "6", "_", "V", "E", "C", "T", "O", "R">>, <<"B", "F", "L", "O", "A", "T", "1", "6", "_", "V", "E", "C", "T", "O", "R">>, <<"S", "P", "A", "R", "S", "E", "_", "F", "L", "O", "A", "T", "_", "V", "E", "C", "T", "O", "R">>}
KeyTypes == {<<"I", "N", "T", "8">>, <<"I", "N", "T", "1", "6">>, <<"I", "N", "T", "3", "2">>, <<"I", "N", "T", "6", "4">>, <<"V", "A", "R", "C", "H", "A", "R">>, <<"S", "T", "R", "I", "N", "G">>}

ValidSchema(fields) ==
    /\ fields # <<>>
    /\ \A i \in 1..Len(fields) : CanonicalType(fields[i].type) \in KnownTypes
    /\ Len(SelectSeq(fields, LAMBDA f : Get(f, "is_primary", FALSE))) <= 1
    /\ \A i \in 1..Len(fields) :
          Get(fields[i], "is_primary", FALSE) => Upper(fields[i].type) \in KeyTypes

MockIdVec == <<[name |-> "id", type |-> Int64T, is_primary |-> TRUE],
               [name |-> "vec", type |-> FloatVectorT, dim |-> 2]>>
MockInt32Pk == <<[name |-> "id", type |-> Int32T, is_primary |-> TRUE],
                 [name |-> "title", type |-> VarCharT, max_length |-> 10]>>
MockTextPk == <<[name |-> "key", type |-> VarCharT, is_primary |-> TRUE,
                 max_length |-> 32],
                [name |-> "age", type |-> Int32T, nullable |-> TRUE,
                 min |-> 1, max |-> 9]>>
MockAutoId == <<[name |-> "id", type |-> Int64T, is_primary |-> TRUE,
                 auto_id |-> TRUE],
                [name |-> "vec", type |-> <<"f", "l", "o", "a", "t", "v", "e", "c", "t", "o", "r">>, dim |-> 2]>>
MockUnknown == <<[name |-> "id", type |-> Int64T, is_primary |-> TRUE],
                 [name |-> "u", type |-> UnknownVectorT, dim |-> 2]>>
MockShortText == <<[name |-> "id", type |-> Int64T, is_primary |-> TRUE],
                   [name |-> "code", type |-> VarCharT, max_length |-> 5]>>
MockNoPk == <<[name |-> "tags", type |-> ArrayT, max_capacity |-> 2],
              [name |-> "flag", type |-> BoolT, auto_id |-> TRUE]>>

MockSchemas == {MockIdVec, MockInt32Pk, MockTextPk, MockAutoId, MockUnknown,
                MockShortText, MockNoPk}

\* the fields _gen_value_by_field is called with directly
CallFields ==
    {[name |-> "u", type |-> UnknownVectorT, dim |-> 2],
     [name |-> "g", type |-> <<"G", "e", "o", "m", "e", "t", "r", "y">>],
     [name |-> "s", type |-> SparseFloatVectorT, dim |-> 2],
     [name |-> "v", type |-> <<"F", "L", "O", "A", "T", "_", "V", "E", "C", "T", "O", "R">>, dim |-> 2],
     [name |-> "b", type |-> <<"b", "o", "o", "l">>],
     [name |-> "n", type |-> Int16T, min |-> 0 - 5, max |-> 5],
     [name |-> "t", type |-> StringT, max_length |-> 10],
     [name |-> "a", type |-> ArrayT, element_type |-> VarCharT,
      max_capacity |-> 3, max_length |-> 20],
     [name |-> "r", type |-> ArrayT, element_type |-> DoubleT,
      max_capacity |-> 2],
     [name |-> "k", type |-> <<"a", "r", "r", "a", "y">>, element_type |-> <<"b", "o", "o", "l">>,
      max_capacity |-> 1],
     [name |-> "e", type |-> ArrayT, max_capacity |-> 0],
     [name |-> "h", type |-> <<"f", "l", "o", "a", "t", "1", "6", "v", "e", "c", "t", "o", "r">>, dim |-> 2]}

Clocks == {1, 2}

OptIdle ==
    /\ document = "object"
    /\ schema = <<>>
    /\ rows = 0
    /\ format = ParquetF
    /\ batch_size = 1
    /\ seed = NoSeed
    /\ max_rows_per_file = 1
    /\ max_file_size_mb = DefaultMaxFileSizeMb
    /\ stream = <<>>
    /\ run = 0
    /\ pc = "idle"
    /\ error = <<>>
    /\ rng = [origin |-> ProcessOrigin(0), pos |-> 0]
    /\ total_files = 0
    /\ remaining_rows = 0
    /\ file_index = 0
    /\ pk_offset = 0
    /\ all_files_created = <<>>
    /\ generated = 0
    /\ written = <<>>
    /\ meta = <<>>
    /\ first = <<>>

InitMock ==
    /\ OptIdle
    /\ OthersIdle
    /\ \/ /\ m_pc = "entry"
          /\ m_fields \in MockSchemas
          /\ m_rows \in 0..MaxMockRows
          /\ m_seed \in Seeds
          /\ m_clock \in Clocks
       \/ /\ m_pc = "call"
          /\ m_fields = <<>>
          /\ m_rows = 0
          /\ m_seed = NoSeed
          /\ m_clock = 0
    /\ m_base_ts = 0
    /\ m_idx = 0
    /\ m_rows_data = <<>>
    /\ m_result = <<>>

\* lines 64-92, when the validation of the schema fails
MockEntryRaises ==
    /\ m_pc = "entry"
    /\ ~ValidSchema(m_fields)
    /\ m_pc' = "raised"
    /\ m_result' = <<Raise("ValueError", <<"S", "c", "h", "e", "m", "a", " ", "v", "a", "l", "i", "d", "a", "t", "i", "o", "n", " ", "f", "a", "i", "l", "e", "d">>)>>
    /\ UNCHANGED <<opt, others, m_args, m_base_ts, m_idx, m_rows_data>>

\* lines 64-104
MockEntry ==
    /\ m_pc = "entry"
    /\ ValidSchema(m_fields)
    /\ m_base_ts' = BaseTs(m_seed, m_clock)
    /\ m_idx' = 0
    /\ m_rows_data' = <<>>
    /\ m_pc' = "rows"
    /\ UNCHANGED <<opt, others, m_args, m_result>>

\* lines 105-123: one pass of the loop over range(rows)
MockRow ==
    /\ m_pc = "rows"
    /\ m_idx < m_rows
    /\ \E u \in 0..(DrawMod - 1), null \in BOOLEAN :
          LET r == RowOf(m_fields, PkName(m_fields), m_base_ts, m_idx, u, null)
          IN  /\ r.ok
              /\ m_rows_data' = Append(m_rows_data, r.val)
    /\ m_idx' = m_idx + 1
    /\ UNCHANGED <<opt, others, m_args, m_pc, m_base_ts, m_result>>

\* lines 105-122: the pass in which _gen_value_by_field raises
MockRowRaises ==
    /\ m_pc = "rows"
    /\ m_idx < m_rows
    /\ \E u \in 0..(DrawMod - 1), null \in BOOLEAN :
          LET r == RowOf(m_fields, PkName(m_fields), m_base_ts, m_idx, u, null)
          IN  /\ ~r.ok
              /\ m_result' = <<r>>
    /\ m_pc' = "raised"
    /\ UNCHANGED <<opt, others, m_args, m_base_ts, m_idx, m_rows_data>>

\* line 125
MockReturn ==
    /\ m_pc = "rows"
    /\ m_idx >= m_rows
    /\ m_result' = <<Ok(m_rows_data)>>
    /\ m_pc' = "returned"
    /\ UNCHANGED <<opt, others, m_args, m_base_ts, m_idx, m_rows_data>>

\* a call of _gen_value_by_field on its own
DirectCall ==
    /\ m_pc = "call"
    /\ \E f \in CallFields, u \in 0..(DrawMod - 1) :
          m_result' = <<[field |-> f, out |-> gen_value_by_field(f, u)]>>
    /\ m_pc' = "called"
    /\ UNCHANGED <<opt, others, m_args, m_base_ts, m_idx, m_rows_data>>

NextMock ==
    \/ MockEntry
    \/ MockEntryRaises
    \/ MockRow
    \/ MockRowRaises
    \/ MockReturn
    \/ DirectCall

SpecMock == InitMock /\ [][NextMock]_vars

(***************************************************************************)
(* Both generators over schemas that exercise the field parameters: a      *)
(* behaviour of SpecTypes is a run (and a second run) of                   *)
(* generate_data_optimized, or a call of generator.py.                     *)
(***************************************************************************)
SchemaVecFirst == <<[name |-> "vec", type |-> Int8VectorT, dim |-> 1],
                    [name |-> "id", type |-> Int64T, is_primary |-> TRUE]>>
SchemaBounded == <<[name |-> "id", type |-> Int64T, is_primary |-> TRUE],
                   [name |-> "code", type |-> VarCharT, max_length |-> 5],
                   [name |-> "n", type |-> Int64T, min |-> 1, max |-> 9]>>
SchemaArrays == <<[name |-> "id", type |-> Int64T, is_primary |-> TRUE],
                  [name |-> "tags", type |-> ArrayT, max_capacity |-> 2],
                  [name |-> "names", type |-> ArrayT, element_type |-> VarCharT,
                   max_capacity |-> 3, max_length |-> 4],
                  [name |-> "scores", type |-> ArrayT, element_type |-> FloatT,
                   max_capacity |-> 1],
                  [name |-> "none", type |-> ArrayT, element_type |-> Int64T,
                   max_capacity |-> 0]>>
SchemaLowerCase == <<[name |-> "id", type |-> <<"i", "n", "t", "6", "4">>, is_primary |-> TRUE],
                     [name |-> "flag", type |-> <<"B", "O", "O", "L">>],
                     [name |-> "ok", type |-> BoolT]>>

TypeSchemas == {SchemaVecFirst, SchemaBounded, SchemaArrays, SchemaLowerCase}

SizeLimits == {0, DefaultMaxFileSizeMb}

InitTypes ==
    \/ /\ document \in {"object", "list"}
       /\ schema \in TypeSchemas
       /\ rows \in 0..MaxTypeRows
       /\ format \in Formats
       /\ batch_size = 1
       /\ seed \in Seeds
       /\ max_rows_per_file \in (0..MaxTypeRows) \cup {DefaultMaxRowsPerFile}
       /\ max_file_size_mb \in SizeLimits
       /\ stream \in [UsedOrigins(seed) -> 0..(DrawMod - 1)]
       /\ FreshCall(1)
       /\ first = <<>>
       /\ MockIdle
       /\ OthersIdle
    \/ InitMock

NextTypes ==
    \/ Next
    \/ NextMock

SpecTypes == InitTypes /\ [][NextTypes]_vars

(***************************************************************************)
(* ZillizImporter (zilliz_importer.py).  The remote database is the set of *)
(* its collections and the list of the calls that changed it.  A           *)
(* directory is [exists, origin, meta, parquet]: meta is <<>> or the       *)
(* loaded meta.json, parquet the *.parquet files in name order, each       *)
(* [name, rows].                                                           *)
(***************************************************************************)
\* lines 269-286
type_mapping ==
    <<<<BoolT, <<"B", "O", "O", "L">>>>,
      <<Int8T, <<"I", "N", "T", "8">>>>,
      <<Int16T, <<"I", "N", "T", "1", "6">>>>,
      <<Int32T, <<"I", "N", "T", "3", "2">>>>,
      <<Int64T, <<"I", "N", "T", "6", "4">>>>,
      <<FloatT, <<"F", "L", "O", "A", "T">>>>,
      <<DoubleT, <<"D", "O", "U", "B", "L", "E">>>>,
      <<StringT, <<"V", "A", "R", "C", "H", "A", "R">>>>,
      <<VarCharT, <<"V", "A", "R", "C", "H", "A", "R">>>>,
      <<JsonT, <<"J", "S", "O", "N">>>>,
      <<ArrayT, <<"A", "R", "R", "A", "Y">>>>,
      <<FloatVectorT, <<"F", "L", "O", "A", "T", "_", "V", "E", "C", "T", "O", "R">>>>,
      <<BinaryVectorT, <<"B", "I", "N", "A", "R", "Y", "_", "V", "E", "C", "T", "O", "R">>>>,
      <<Float16VectorT, <<"F", "L", "O", "A", "T", "1", "6", "_", "V", "E", "C", "T", "O", "R">>>>,
      <<BFloat16VectorT, <<"B", "F", "L", "O", "A", "T", "1", "6", "_", "V", "E", "C", "T", "O", "R">>>>,
      <<SparseFloatVectorT, <<"S", "P", "A", "R", "S", "E", "_", "F", "L", "O", "A", "T", "_", "V", "E", "C", "T", "O", "R">>>>>>

\* lines 267-291
get_milvus_datatype(type_name) ==
    LET hit == SelectSeq(type_mapping, LAMBDA e : e[1] = type_name)
    IN  IF hit = <<>>
        THEN Raise("ValueError", <<"U", "n", "k", "n", "o", "w", "n", " ", "f", "i", "e", "l", "d", " ", "t", "y", "p", "e", ":", " ">> \o type_name)
        ELSE Ok(hit[1][2])

\* the member names of pymilvus' DataType, which DataType[...] looks up
DataTypeMembers ==
    {<<"B", "O", "O", "L">>, <<"I", "N", "T", "8">>, <<"I", "N", "T", "1", "6">>, <<"I", "N", "T", "3", "2">>, <<"I", "N", "T", "6", "4">>, <<"F", "L", "O", "A", "T">>, <<"D", "O", "U", "B", "L", "E">>,
     <<"V", "A", "R", "C", "H", "A", "R">>, <<"J", "S", "O", "N">>, <<"A", "R", "R", "A", "Y">>, <<"B", "I", "N", "A", "R", "Y", "_", "V", "E", "C", "T", "O", "R">>, <<"F", "L", "O", "A", "T", "_", "V", "E", "C", "T", "O", "R">>,
     <<"F", "L", "O", "A", "T", "1", "6", "_", "V", "E", "C", "T", "O", "R">>, <<"B", "F", "L", "O", "A", "T", "1", "6", "_", "V", "E", "C", "T", "O", "R">>, <<"I", "N", "T", "8", "_", "V", "E", "C", "T", "O", "R">>,
     <<"S", "P", "A", "R", "S", "E", "_", "F", "L", "O", "A", "T", "_", "V", "E", "C", "T", "O", "R">>}

\* lines 251-258: the type-specific parameters of a field
field_params(field_info) ==
    IF field_info.type \in {VarCharT, StringT}
    THEN Ok([max_length |-> Get(field_info, "max_length", DefaultMaxLength)])
    ELSE IF Contains(field_info.type, VectorWord)
    THEN IF "dim" \in DOMAIN field_info
         THEN Ok([dim |-> field_info.dim])
         ELSE Raise("KeyError", <<"d", "i", "m">>)
    ELSE IF field_info.type = ArrayT
    THEN IF "max_capacity" \notin DOMAIN field_info
         THEN Raise("KeyError", <<"m", "a", "x", "_", "c", "a", "p", "a", "c", "i", "t", "y">>)
         ELSE IF "element_type" \notin DOMAIN field_info
         THEN Raise("KeyError", <<"e", "l", "e", "m", "e", "n", "t", "_", "t", "y", "p", "e">>)
         ELSE IF field_info.element_type \notin DataTypeMembers
         THEN Raise("KeyError", field_info.element_type)
         ELSE Ok([max_capacity |-> field_info.max_capacity,
                  element_type |-> field_info.element_type])
    ELSE Ok(<<>>)

\* lines 236-260: the FieldSchema of one entry of metadata["fields"]
field_schema(field_info) ==
    LET milvus_type == get_milvus_datatype(field_info.type)
        params == field_params(field_info)
    IN  IF ~milvus_type.ok THEN milvus_type
        ELSE IF ~params.ok THEN params
        ELSE Ok([name |-> field_info.name,
                 dtype |-> milvus_type.val,
                 is_primary |-> Get(field_info, "is_primary", FALSE),
                 auto_id |-> Get(field_info, "auto_id", FALSE),
                 params |-> params.val])

RECURSIVE field_schemas(_)
field_schemas(infos) ==
    IF infos = <<>> THEN Ok(<<>>)
    ELSE LET one == field_schema(infos[1])
         IN  IF ~one.ok THEN one
             ELSE LET rest == field_schemas(Tail(infos))
                  IN  IF ~rest.ok THEN rest ELSE Ok(<<one.val>> \o rest.val)

\* lines 232-265
create_schema_from_metadata(metadata) ==
    IF "fields" \notin DOMAIN metadata THEN Raise("KeyError", <<"f", "i", "e", "l", "d", "s">>)
    ELSE field_schemas(metadata.fields)

DemoName == <<"d", "e", "m", "o">>

\* a call that changed the remote database
Call(op, arg) == [op |-> op, arg |-> arg]

\* where lines 91-131 end: the exception raised (<<>> if none), the remote
\* calls made and the collections left
Prepared(e, cs, cols, name) ==
    [error |-> e, calls |-> cs, collections |-> cols, name |-> name]

\* import_data with the drop of line 108 made before drop_if_exists is looked at
ExistsFailureAfterDrop(name) ==
    Prepared(<<[type |-> "ValueError", arg |-> <<"a", "l", "r", "e", "a", "d", "y", " ", "e", "x", "i", "s", "t", "s">>]>>,
             <<Call("drop_collection", name)>>, collections \ {name}, <<name>>)

\* lines 106-114, when the collection exists and drop_if_exists is false
ExistsFailure(name) ==
    Prepared(<<[type |-> "ValueError", arg |-> <<"a", "l", "r", "e", "a", "d", "y", " ", "e", "x", "i", "s", "t", "s">>]>>,
             <<>>, collections, <<name>>)

\* lines 91-131
Prepare ==
    IF ~data_path.exists
    THEN Prepared(<<[type |-> "FileNotFoundError", arg |-> <<"D", "a", "t", "a", " ", "p", "a", "t", "h", " ", "n", "o", "t", " ", "f", "o", "u", "n", "d">>]>>,
                  <<>>, collections, <<>>)
    ELSE IF data_path.meta = <<>>
    THEN Prepared(<<[type |-> "FileNotFoundError", arg |-> <<"m", "e", "t", "a", ".", "j", "s", "o", "n", " ", "n", "o", "t", " ", "f", "o", "u", "n", "d">>]>>,
                  <<>>, collections, <<>>)
    ELSE LET metadata == data_path.meta[1]
         IN  IF collection_name = <<>> /\ "collection_name" \notin DOMAIN metadata
             THEN Prepared(<<[type |-> "KeyError", arg |-> <<"c", "o", "l", "l", "e", "c", "t", "i", "o", "n", "_", "n", "a", "m", "e">>]>>,
                           <<>>, collections, <<>>)
             ELSE
    LET name == IF collection_name # <<>> THEN collection_name[1]
                ELSE metadata.collection_name
        exists == name \in collections
        dropped == IF exists THEN <<Call("drop_collection", name)>> ELSE <<>>
        schema_made == create_schema_from_metadata(metadata)
        created == dropped \o <<Call("Collection", name)>>
    IN  IF exists /\ ~drop_if_exists
        THEN ExistsFailure(name)
        ELSE IF ~schema_made.ok
        THEN Prepared(<<schema_made.err>>, dropped, collections \ {name}, <<name>>)
        ELSE IF data_path.parquet = <<>>
        THEN Prepared(<<[type |-> "FileNotFoundError", arg |-> <<"N", "o", " ", "p", "a", "r", "q", "u", "e", "t", " ", "f", "i", "l", "e", "s", " ", "f", "o", "u", "n", "d">>]>>,
                      created, collections \cup {name}, <<name>>)
        ELSE Prepared(<<>>, created, collections \cup {name}, <<name>>)

\* the first file at or after position k that holds rows (the loop of line
\* 158 or 185 makes no iteration for an empty file)
RECURSIVE NextFile(_)
NextFile(k) ==
    IF k > Len(data_path.parquet) THEN k
    ELSE IF data_path.parquet[k].rows > 0 THEN k
    ELSE NextFile(k + 1)

\* lines 91-135, when nothing is raised
ImportEntry ==
    /\ z_pc = "entry"
    /\ Prepare.error = <<>>
    /\ final_collection_name' = Prepare.name
    /\ calls' = Prepare.calls
    /\ collections' = Prepare.collections
    /\ total_inserted' = 0
    /\ failed_batches' = <<>>
    /\ z_file' = NextFile(1)
    /\ z_i' = 0
    /\ z_pc' = "insert"
    /\ UNCHANGED <<opt, mock, waiter, z_args, z_error, z_result>>

\* lines 91-131, when one of them raises
ImportEntryRaises ==
    /\ z_pc = "entry"
    /\ Prepare.error # <<>>
    /\ z_error' = Prepare.error
    /\ final_collection_name' = Prepare.name
    /\ calls' = Prepare.calls
    /\ collections' = Prepare.collections
    /\ z_pc' = "raised"
    /\ UNCHANGED <<opt, mock, waiter, z_args, total_inserted, failed_batches,
                   z_file, z_i, z_result>>

\* lines 160-182 and 187-206: what one batch does with the remote database
BatchOutcomes == {"inserted", "insert_raises", "flush_raises"}

\* lines 172 and 197: the periodic flush is due after this batch
FlushDue(i) == (i + z_batch_size) % (z_batch_size * FlushEvery) = 0

\* lines 175-181 and 200-206
FailedBatch(parquet_file, i, e) ==
    [file |-> parquet_file.name, batch |-> i \div z_batch_size, error |-> e]

\* lines 158-182 and 185-206: one iteration of the batch loop
InsertBatch ==
    /\ z_pc = "insert"
    /\ z_file <= Len(data_path.parquet)
    /\ LET parquet_file == data_path.parquet[z_file]
           total_rows == parquet_file.rows
           len_batch == Min2(z_batch_size, total_rows - z_i)
       IN  /\ \E outcome \in BatchOutcomes :
                 /\ outcome = "flush_raises" => FlushDue(z_i)
                 /\ outcome # "inserted" => Len(failed_batches) < MaxFailures
                 /\ calls' =
                      calls
                      \o (IF outcome = "insert_raises" THEN <<>>
                          ELSE <<Call("insert", len_batch)>>)
                      \o (IF outcome = "inserted" /\ FlushDue(z_i)
                          THEN <<Call("flush", final_collection_name[1])>>
                          ELSE <<>>)
                 /\ total_inserted' =
                      IF outcome = "insert_raises" THEN total_inserted
                      ELSE total_inserted + len_batch
                 /\ failed_batches' =
                      IF outcome = "inserted" THEN failed_batches
                      ELSE Append(failed_batches,
                                  FailedBatch(parquet_file, z_i, outcome))
           /\ IF z_i + z_batch_size < total_rows
              THEN /\ z_i' = z_i + z_batch_size
                   /\ z_file' = z_file
              ELSE /\ z_i' = 0
                   /\ z_file' = NextFile(z_file + 1)
    /\ UNCHANGED <<opt, mock, waiter, z_args, z_pc, z_error,
                   final_collection_name, collections, z_result>>

\* lines 297-298: the fields _create_indexes makes an index on
IndexedFields(metadata) ==
    SelectSeq(metadata.fields,
              LAMBDA f : Contains(f.type, VectorWord) /\ f.type # SparseFloatVectorT)

\* lines 300-324
IndexType(dim) ==
    IF dim <= FlatMaxDim THEN "FLAT"
    ELSE IF dim <= IvfMaxDim THEN "IVF_FLAT"
    ELSE "HNSW"

\* lines 293-339: `failing` are the fields whose create_index raises
create_indexes(metadata, failing) ==
    LET done == SelectSeq(IndexedFields(metadata), LAMBDA f : f.name \notin failing)
    IN  [k \in 1..Len(done) |->
            [field |-> done[k].name,
             index_type |-> IndexType(Get(done[k], "dim", 0)),
             metric_type |-> "L2"]]

\* index_info of lines 213-216
IndexInfo(failing) ==
    IF create_index THEN create_indexes(data_path.meta[1], failing) ELSE <<>>

IndexCalls(failing) ==
    [k \in 1..Len(IndexInfo(failing)) |-> Call("create_index", IndexInfo(failing)[k].field)]

FieldNames(metadata) == {metadata.fields[k].name : k \in 1..Len(metadata.fields)}

\* lines 209-230, when the final flush and the load succeed
ImportFinish ==
    /\ z_pc = "insert"
    /\ z_file > Len(data_path.parquet)
    /\ \E failing \in SUBSET FieldNames(data_path.meta[1]) :
          /\ calls' = calls \o <<Call("flush", final_collection_name[1])>>
                            \o IndexCalls(failing)
                            \o <<Call("load", final_collection_name[1])>>
          /\ z_result' = <<[collection_name |-> final_collection_name[1],
                            total_inserted |-> total_inserted,
                            failed_batches |-> failed_batches,
                            indexes_created |-> IndexInfo(failing),
                            collection_loaded |-> TRUE]>>
    /\ z_pc' = "returned"
    /\ UNCHANGED <<opt, mock, waiter, z_args, z_error, final_collection_name,
                   total_inserted, failed_batches, z_file, z_i, collections>>

\* lines 209-220, when the final flush (line 209) or the load (line 220)
\* raises
ImportFinishRaises ==
    /\ z_pc = "insert"
    /\ z_file > Len(data_path.parquet)
    /\ \E at \in {"flush", "load"} :
          /\ calls' = IF at = "flush" THEN calls
                      ELSE calls \o <<Call("flush", final_collection_name[1])>>
                                 \o IndexCalls({})
          /\ z_error' = <<[type |-> "MilvusException", arg |-> at]>>
    /\ z_pc' = "raised"
    /\ UNCHANGED <<opt, mock, waiter, z_args, final_collection_name,
                   total_inserted, failed_batches, z_file, z_i, collections,
                   z_result>>

\* a direct call of _get_milvus_datatype (lines 267-291)
DatatypeCall ==
    /\ z_pc = "call"
    /\ z_result' = <<get_milvus_datatype(field_type)>>
    /\ z_pc' = "called"
    /\ UNCHANGED <<opt, mock, waiter, z_args, z_error, final_collection_name,
                   total_inserted, failed_batches, z_file, z_i, collections,
                   calls>>

\* the parquet files the engine wrote, as the glob of line 129 finds them
EngineParquet ==
    IF WriterOf(format) = <<"parquet">>
    THEN [k \in 1..Len(written) |-> [name |-> written[k].name, rows |-> written[k].rows]]
    ELSE <<>>

\* the output directory of a finished engine run is handed to import_data
ImportGenerated ==
    /\ pc = "returned"
    /\ z_pc = "idle"
    /\ data_path' = [exists |-> TRUE, origin |-> "engine",
                     meta |-> <<meta[1].data>>, parquet |-> EngineParquet]
    /\ collection_name' \in {<<>>, <<DemoName>>}
    /\ drop_if_exists' \in BOOLEAN
    /\ collections' \in {{}, {DemoName}}
    /\ z_pc' = "entry"
    /\ UNCHANGED <<opt, mock, waiter, create_index, z_batch_size,
                   z_show_progress, field_type, z_error, final_collection_name,
                   total_inserted, failed_batches, z_file, z_i, calls, z_result>>


\* the metadata the importer's tests load (tests/test_importers.py)
TestMetadata ==
    [collection_name |-> DemoName,
     fields |-> <<[name |-> "id", type |-> Int64T, is_primary |-> TRUE],
                  [name |-> "vector", type |-> FloatVectorT, dim |-> 2]>>]

Int8VectorMetadata ==
    [collection_name |-> DemoName,
     fields |-> <<[name |-> "id", type |-> Int64T, is_primary |-> TRUE],
                  [name |-> "vector", type |-> Int8VectorT, dim |-> 2]>>]

File(n, r) == [name |-> n, rows |-> r]

ParquetLayouts ==
    {<<>>,
     <<File(<<"d", "a", "t", "a", ".", "p", "a", "r", "q", "u", "e", "t">>, MaxFileRows)>>,
     <<File(<<"a", ".", "p", "a", "r", "q", "u", "e", "t">>, 2), File(<<"b", ".", "p", "a", "r", "q", "u", "e", "t">>, 0), File(<<"c", ".", "p", "a", "r", "q", "u", "e", "t">>, 1)>>}

Directories ==
    {[exists |-> FALSE, origin |-> "none", meta |-> <<>>, parquet |-> <<>>],
     [exists |-> TRUE, origin |-> "hand", meta |-> <<>>,
      parquet |-> <<File(<<"d", "a", "t", "a", ".", "p", "a", "r", "q", "u", "e", "t">>, 1)>>],
     [exists |-> TRUE, origin |-> "hand", meta |-> <<Int8VectorMetadata>>,
      parquet |-> <<File(<<"d", "a", "t", "a", ".", "p", "a", "r", "q", "u", "e", "t">>, 1)>>]}
    \cup {[exists |-> TRUE, origin |-> "hand", meta |-> <<TestMetadata>>,
           parquet |-> files] : files \in ParquetLayouts}

FieldTypeNames ==
    {Int8T, Int16T, Int32T, Int64T, FloatT, DoubleT, BoolT, VarCharT, StringT,
     JsonT, ArrayT, FloatVectorT, BinaryVectorT, Int8VectorT, Float16VectorT,
     BFloat16VectorT, SparseFloatVectorT, UnknownTypeT, Lower(FloatVectorT)}

\* a process about to call import_data on a directory
InitImportCall ==
    /\ OptIdle /\ MockIdle /\ WaiterIdle
    /\ first = <<>>
    /\ data_path \in Directories
    /\ collection_name \in {<<>>, <<DemoName>>}
    /\ drop_if_exists \in BOOLEAN
    /\ create_index \in BOOLEAN
    /\ z_batch_size \in 1..MaxImportBatch
    /\ z_show_progress \in BOOLEAN
    /\ field_type = <<>>
    /\ z_pc = "entry"
    /\ z_error = <<>>
    /\ final_collection_name = <<>>
    /\ total_inserted = 0
    /\ failed_batches = <<>>
    /\ z_file = 0
    /\ z_i = 0
    /\ collections \in {{}, {DemoName}}
    /\ calls = <<>>
    /\ z_result = <<>>

\* a process about to call _get_milvus_datatype
InitDatatypeCall ==
    /\ OptIdle /\ MockIdle /\ WaiterIdle
    /\ first = <<>>
    /\ data_path = [exists |-> FALSE, origin |-> "none", meta |-> <<>>,
                    parquet |-> <<>>]
    /\ collection_name = <<>>
    /\ drop_if_exists = FALSE
    /\ create_index = FALSE
    /\ z_batch_size = 1
    /\ z_show_progress = FALSE
    /\ field_type \in FieldTypeNames
    /\ z_pc = "call"
    /\ z_error = <<>>
    /\ final_collection_name = <<>>
    /\ total_inserted = 0
    /\ failed_batches = <<>>
    /\ z_file = 0
    /\ z_i = 0
    /\ collections = {}
    /\ calls = <<>>
    /\ z_result = <<>>

\* an engine run whose output directory will be imported
InitPipeline ==
    /\ document = "object"
    /\ schema = SchemaIdVec
    /\ rows \in 0..PipelineRows
    /\ format \in Formats
    /\ batch_size = 1
    /\ seed = <<1>>
    /\ max_rows_per_file \in {0, 1, DefaultMaxRowsPerFile}
    /\ max_file_size_mb = DefaultMaxFileSizeMb
    /\ stream \in [UsedOrigins(seed) -> 0..(DrawMod - 1)]
    /\ FreshCall(1)
    /\ first = <<>>
    /\ MockIdle
    /\ OthersIdle

InitImport == InitImportCall \/ InitDatatypeCall \/ InitPipeline

NextImport ==
    \/ ImportEntry
    \/ ImportEntryRaises
    \/ InsertBatch
    \/ ImportFinish
    \/ ImportFinishRaises
    \/ DatatypeCall
    \/ ImportGenerated
    \/ Next

SpecImport == InitImport /\ [][NextImport]_vars
(***************************************************************************)
(* MilvusBulkImporter.wait_for_completion (milvus_importer.py).  The clock *)
(* counts the seconds since start_time (line 123); a poll is one call of   *)
(* get_import_progress, whose answer is any job description.               *)
(***************************************************************************)
\* what resp.json()["data"] can hold: a job with a state, or without one
JobStates ==
    {"Pending", "Importing", "ImportCompleted", "Completed", "ImportFailed",
     "Failed"}
JobInfos == {[state |-> s, progress |-> 0] : s \in JobStates} \cup {[progress |-> 0]}

\* lines 144 and 198
StateOf(info) == Get(info, "state", "unknown")

\* a comparison of the state with one name only
FailedImportOnly(state) == state = "ImportFailed"

\* line 160
CompletedProgress(state) == state = "ImportCompleted" \/ state = "Completed"
\* line 171
FailedProgress(state) == state = "ImportFailed" \/ state = "Failed"
\* line 215
CompletedPlain(state) == state = "ImportCompleted" \/ state = "Completed"
\* line 225
FailedPlain(state) == state = "ImportFailed" \/ state = "Failed"

Timeouts == (0 - 1)..MaxTimeout

\* a process about to call wait_for_completion
InitWait ==
    /\ OptIdle /\ MockIdle /\ ZillizIdle
    /\ first = <<>>
    /\ timeout \in Timeouts
    /\ w_show_progress \in BOOLEAN
    /\ w_run = 1
    /\ w_pc = "loop"
    /\ w_elapsed = 0
    /\ w_polls = <<>>
    /\ job_info = <<>>
    /\ w_result = <<>>
    /\ w_first = <<>>

\* lines 137-185: one iteration of the loop under the progress bar; the
\* poll takes `delay` seconds
PollWithProgress ==
    /\ w_pc = "loop"
    /\ w_show_progress
    /\ w_elapsed < timeout
    /\ \E info \in JobInfos, delay \in 0..MaxPollDelay :
          LET state == StateOf(info)
          IN  /\ job_info' = <<info>>
              /\ w_polls' = Append(w_polls, state)
              /\ IF CompletedProgress(state)
                 THEN /\ w_result' = <<TRUE>>
                      /\ w_pc' = "returned"
                      /\ w_elapsed' = w_elapsed + delay
                 ELSE IF FailedProgress(state)
                 THEN /\ w_result' = <<FALSE>>
                      /\ w_pc' = "returned"
                      /\ w_elapsed' = w_elapsed + delay
                 ELSE /\ w_result' = w_result
                      /\ w_pc' = w_pc
                      /\ w_elapsed' = w_elapsed + delay + SleepSeconds
    /\ UNCHANGED <<opt, mock, zilliz, timeout, w_show_progress, w_run, w_first>>

\* lines 192-235: one iteration of the loop without the progress bar
PollPlain ==
    /\ w_pc = "loop"
    /\ ~w_show_progress
    /\ w_elapsed < timeout
    /\ \E info \in JobInfos, delay \in 0..MaxPollDelay :
          LET state == StateOf(info)
          IN  /\ job_info' = <<info>>
              /\ w_polls' = Append(w_polls, state)
              /\ IF CompletedPlain(state)
                 THEN /\ w_result' = <<TRUE>>
                      /\ w_pc' = "returned"
                      /\ w_elapsed' = w_elapsed + delay
                 ELSE IF FailedPlain(state)
                 THEN /\ w_result' = <<FALSE>>
                      /\ w_pc' = "returned"
                      /\ w_elapsed' = w_elapsed + delay
                 ELSE /\ w_result' = w_result
                      /\ w_pc' = w_pc
                      /\ w_elapsed' = w_elapsed + delay + SleepSeconds
    /\ UNCHANGED <<opt, mock, zilliz, timeout, w_show_progress, w_run, w_first>>

\* lines 139-143 and 193-197, when get_import_progress or the decoding of
\* its answer raises: the exception leaves wait_for_completion
PollRaises ==
    /\ w_pc = "loop"
    /\ w_elapsed < timeout
    /\ w_polls' = Append(w_polls, "raises")
    /\ w_result' = <<[type |-> "RequestException"]>>
    /\ w_pc' = "raised"
    /\ UNCHANGED <<opt, mock, zilliz, timeout, w_show_progress, w_run,
                   w_elapsed, job_info, w_first>>

\* lines 237-243: the loop condition is false; line 241 reads job_info,
\* which is bound by the first poll only
TimeoutReached ==
    /\ w_pc = "loop"
    /\ ~(w_elapsed < timeout)
    /\ IF job_info = <<>>
       THEN /\ w_result' = <<[type |-> "UnboundLocalError"]>>
            /\ w_pc' = "raised"
       ELSE /\ w_result' = <<FALSE>>
            /\ w_pc' = "returned"
    /\ UNCHANGED <<opt, mock, zilliz, timeout, w_show_progress, w_run,
                   w_elapsed, w_polls, job_info, w_first>>

WaitEnded == w_pc \in {"returned", "raised"}

\* the same job is waited for again, with the other value of show_progress
WaitAgain ==
    /\ w_run = 1
    /\ WaitEnded
    /\ w_first' = <<[polls |-> w_polls, pc |-> w_pc, result |-> w_result]>>
    /\ w_run' = 2
    /\ w_show_progress' = ~w_show_progress
    /\ w_pc' = "loop"
    /\ w_elapsed' = 0
    /\ w_polls' = <<>>
    /\ job_info' = <<>>
    /\ w_result' = <<>>
    /\ UNCHANGED <<opt, mock, zilliz, timeout>>

NextWait ==
    \/ PollWithProgress
    \/ PollPlain
    \/ PollRaises
    \/ TimeoutReached
    \/ WaitAgain

SpecWait == InitWait /\ [][NextWait]_vars
(***************************************************************************)
(* Properties                                                              *)
(***************************************************************************)
RECURSIVE SumRows(_)
SumRows(fs) == IF fs = <<>> THEN 0 ELSE fs[1].rows + SumRows(Tail(fs))

\* ceil(a / b) for a >= 0 and b > 0
Ceil(a, b) == IF a % b = 0 THEN a \div b ELSE (a \div b) + 1

\* min(max_rows_per_file, batch_size * 10), the cap the claims speak of
Cap == IF max_rows_per_file <= batch_size * 10 THEN max_rows_per_file
       ELSE batch_size * 10

Returned == pc = "returned"

C3_FileCount ==
    Returned =>
        /\ Len(written) = Ceil(rows, Cap)
        /\ meta # <<>>
        /\ meta[1].data.generation_info.file_count = Ceil(rows, Cap)

\* a completed run of two files cut by the batch_size * 10 cap
C3_Witness ==
    /\ Returned
    /\ rows = 11
    /\ max_rows_per_file = DefaultMaxRowsPerFile
    /\ meta[1].data.generation_info.file_count = 2

\* the primary field of a schema, as a sequence of at most one field
PrimaryOf(fields) ==
    LET p == SelectSeq(fields, LAMBDA f : Get(f, "is_primary", FALSE))
    IN  IF p = <<>> THEN <<>> ELSE <<p[1]>>

\* the values of column `name` read in file order and then row order
RECURSIVE KeysOf(_, _)
KeysOf(files, name) ==
    IF files = <<>> THEN <<>>
    ELSE LET c == SelectSeq(files[1].columns, LAMBDA col : col.name = name)
         IN  (IF c = <<>> THEN <<>> ELSE c[1].vals) \o KeysOf(Tail(files), name)

HasKey(fields, types) ==
    /\ PrimaryOf(fields) # <<>>
    /\ PrimaryOf(fields)[1].type \in types
    /\ ~Get(PrimaryOf(fields)[1], "auto_id", FALSE)

\* C4: with an Int64 primary key that is not auto_id, the keys of a run read
\* in file order and row order are strictly increasing, also across files.
C4_KeysIncrease ==
    (pc \in {"loop", "returned"} /\ HasKey(schema, {Int64T})) =>
        LET keys == KeysOf(written, PrimaryOf(schema)[1].name)
        IN  /\ Len(keys) = SumRows(written)
            /\ \A i \in 1..Len(keys) : \A j \in 1..Len(keys) :
                  i < j => keys[i] < keys[j]

\* three files of keys 0..3, 4..7, 8..10
C4_Witness ==
    /\ Returned
    /\ HasKey(schema, {Int64T})
    /\ Len(written) = 3
    /\ Len(KeysOf(written, PrimaryOf(schema)[1].name)) = 11
    /\ KeysOf(written, PrimaryOf(schema)[1].name)[5] = 4
    /\ KeysOf(written, PrimaryOf(schema)[1].name)[11] = 10

\* C5: with a text primary key that is not auto_id, row i of a run holds the
\* decimal string of offset + index, so no two rows share a key.
C5_TextKeysDistinct ==
    (pc \in {"loop", "returned"} /\ HasKey(schema, {VarCharT, StringT})) =>
        LET keys == KeysOf(written, PrimaryOf(schema)[1].name)
        IN  /\ \A i \in 1..Len(keys) : keys[i] = Str(i - 1)
            /\ \A i \in 1..Len(keys) : \A j \in 1..Len(keys) :
                  i # j => keys[i] # keys[j]

\* s < t on Python strings (by code point; the characters compared here
\* are decimal digits)
CharLess(a, b) == IndexIn(a, <<"0", "1", "2", "3", "4", "5", "6", "7", "8", "9">>) < IndexIn(b, <<"0", "1", "2", "3", "4", "5", "6", "7", "8", "9">>)
RECURSIVE StrLess(_, _)
StrLess(s, t) ==
    IF t = <<>> THEN FALSE
    ELSE IF s = <<>> THEN TRUE
    ELSE IF s[1] = t[1] THEN StrLess(Tail(s), Tail(t))
    ELSE CharLess(s[1], t[1])

IntegerTypes == {Upper(Int8T), Upper(Int16T), Upper(Int32T), Upper(Int64T)}

\* the entries of field `name` in rows_data, in row order
KeyEntries(data, name) ==
    [i \in 1..Len(data) |->
        SelectSeq(data[i], LAMBDA e : e.name = name)]

\* C6: generate_mock_data gives row idx the integer base + idx when the
\* primary key has an integer type and its decimal string when it is text,
\* and the key increases strictly with idx.
C6_KeyScopedToType ==
    (m_pc \in {"rows", "returned"} /\ PrimaryOf(m_fields) # <<>>
        /\ ~Get(PrimaryOf(m_fields)[1], "auto_id", FALSE)) =>
        LET p == PrimaryOf(m_fields)[1]
            e == KeyEntries(m_rows_data, p.name)
        IN  \A i \in 1..Len(e) :
               /\ Len(e[i]) = 1
               /\ IF Upper(p.type) \in IntegerTypes
                  THEN /\ e[i][1].value.kind = "int"
                       /\ e[i][1].value.v = m_base_ts + i - 1
                  ELSE /\ e[i][1].value.kind = "str"
                       /\ e[i][1].value.v = Str(m_base_ts + i - 1)
               /\ \A j \in 1..Len(e) :
                     i < j => IF e[i][1].value.kind = "int"
                              THEN e[i][1].value.v < e[j][1].value.v
                              ELSE StrLess(e[i][1].value.v, e[j][1].value.v)

AutoIdNames(fields) ==
    {fields[i].name : i \in {k \in 1..Len(fields) : Get(fields[k], "auto_id", FALSE)}}

\* C7: no file of generate_data_optimized holds a column for an auto_id
\* field, and no row of generate_mock_data holds a value for one.
C7_NoAutoIdValue ==
    /\ \A k \in 1..Len(written) : \A c \in 1..Len(written[k].columns) :
          written[k].columns[c].name \notin AutoIdNames(schema)
    /\ \A i \in 1..Len(m_rows_data) : \A c \in 1..Len(m_rows_data[i]) :
          m_rows_data[i][c].name \notin AutoIdNames(m_fields)

\* C8: two independent runs with the same arguments and the same integer
\* seed leave the same files with the same values and the same manifest
\* (the timing fields apart).
C8_SeedDeterminism ==
    (run = 2 /\ Ended /\ seed # NoSeed) =>
        /\ first[1].pc = pc
        /\ first[1].written = written
        /\ first[1].meta = meta

HasUnknownType(fields) ==
    \E i \in 1..Len(fields) : CanonicalType(fields[i].type) \notin KnownTypes

\* C9: with a field whose type tag is not in the vocabulary the run writes no
\* data file and ends with an error, and the field is not skipped.
C9_UnknownTypeFails ==
    HasUnknownType(schema) =>
        /\ written = <<>>
        /\ ~Returned

\* C10: a format other than parquet and json is rejected at entry: no batch
\* is generated, no data file and no manifest is written, the run fails.
C10_FormatRejectedAtEntry ==
    Lower(format) \notin {ParquetF, JsonF} =>
        /\ generated = 0
        /\ written = <<>>
        /\ meta = <<>>
        /\ ~Returned


\* n as five decimal digits, 0 <= n < 100000
FiveDigits(n) ==
    [i \in 1..5 |-> <<"0", "1", "2", "3", "4", "5", "6", "7", "8", "9">>[((n \div (10 ^ (5 - i))) % 10) + 1]]

\* data.<ext>, or data-<k:05d>-of-<total:05d>.<ext>
ExpectedName(k, total, ext) ==
    IF total = 1 THEN <<"d", "a", "t", "a", ".">> \o ext
    ELSE <<"d", "a", "t", "a", "-">> \o FiveDigits(k) \o <<"-", "o", "f", "-">> \o FiveDigits(total) \o <<".">> \o ext

\* C11: a run that writes one file names it data.<ext>; a run that writes
\* N > 1 files names the k-th one data-<k:05d>-of-<N:05d>.<ext>; the names
\* of a run are pairwise distinct and N is the number of files written.
C11_FileNames ==
    pc \in {"loop", "returned"} =>
        /\ \A k \in 1..Len(written) :
              /\ written[k].name = ExpectedName(k, Ceil(rows, Cap), Lower(format))
              /\ all_files_created[k] = written[k].name
              /\ \A j \in 1..Len(written) :
                    j # k => written[j].name # written[k].name
        /\ (Returned /\ rows > 0) => Len(written) = Ceil(rows, Cap)

\* a completed run of three JSON files
C11_Witness ==
    /\ Returned
    /\ Len(written) = 3
    /\ written[1].name = <<"d", "a", "t", "a", "-", "0", "0", "0", "0", "1", "-", "o", "f", "-", "0", "0", "0", "0", "3", ".", "j", "s", "o", "n">>
    /\ written[3].name = <<"d", "a", "t", "a", "-", "0", "0", "0", "0", "3", "-", "o", "f", "-", "0", "0", "0", "0", "3", ".", "j", "s", "o", "n">>

\* the names of the files written, in write order
NamesOf(files) == [k \in 1..Len(files) |-> files[k].name]

\* a manifest exists only after a completed run and lists the files written
ManifestMatchesFiles ==
    /\ meta # <<>> =>
          /\ Returned
          /\ remaining_rows <= 0
          /\ meta[1].name = <<"m", "e", "t", "a", ".", "j", "s", "o", "n">>
          /\ meta[1].data.generation_info.data_files = NamesOf(written)
          /\ meta[1].data.generation_info.file_count = Len(written)
    /\ Returned => meta # <<>>
    /\ pc = "raised" => meta = <<>>

\* the manifest is written once, by the step that ends the run, and no data
\* file is written after it
ManifestWrittenLast ==
    /\ (meta' # meta /\ run' = run) =>
          /\ meta = <<>>
          /\ pc = "loop"
          /\ pc' = "returned"
          /\ written' = written
    /\ (meta # <<>> /\ run' = run) => (meta' = meta /\ written' = written)

\* C12: the manifest is written exactly once, after the last data file, as
\* meta.json whatever the format; it lists exactly the files written, in
\* order, with their number; a run that fails writes no manifest.
C12_ManifestOnce == [](ManifestMatchesFiles) /\ [][ManifestWrittenLast]_vars

\* the manifest of a completed run of two JSON files
C12_Witness ==
    /\ Returned
    /\ Lower(format) = JsonF
    /\ meta # <<>>
    /\ meta[1].name = <<"m", "e", "t", "a", ".", "j", "s", "o", "n">>
    /\ meta[1].data.generation_info.file_count = 2
    /\ meta[1].data.generation_info.data_files = <<<<"d", "a", "t", "a", "-", "0", "0", "0", "0", "1", "-", "o", "f", "-", "0", "0", "0", "0", "2", ".", "j", "s", "o", "n">>, <<"d", "a", "t", "a", "-", "0", "0", "0", "0", "2", "-", "o", "f", "-", "0", "0", "0", "0", "2", ".", "j", "s", "o", "n">>>>

\* the names of the fields a value is generated for, in declaration order
GeneratedNames(fields) ==
    LET g == SelectSeq(fields, LAMBDA f : ~Get(f, "auto_id", FALSE))
    IN  [i \in 1..Len(g) |-> g[i].name]

ColumnNames(file) == [c \in 1..Len(file.columns) |-> file.columns[c].name]

\* C13: every file has exactly one column per non-auto_id field of the
\* schema, in the order in which the schema declares the fields.
C13_ColumnOrder ==
    \A k \in 1..Len(written) : ColumnNames(written[k]) = GeneratedNames(schema)

\* a lower bound of the size of a file in bytes: one byte for every cell
MinBytes(file) == file.rows * Len(file.columns)

\* C14: the run is split under the size limit: no file written is larger
\* than max_file_size_mb megabytes, unless it holds a single row and cannot
\* be split further.
C14_SizeLimit ==
    \A k \in 1..Len(written) :
        \/ MinBytes(written[k]) <= max_file_size_mb * 1024 * 1024
        \/ written[k].rows <= 1

\* the fields of integer type that are not the primary key
IntegerFields(fields) ==
    SelectSeq(fields, LAMBDA f : Upper(f.type) \in IntegerTypes
                                 /\ ~Get(f, "is_primary", FALSE))

InRange(f, v) == Get(f, "min", 0) <= v /\ v <= Get(f, "max", 1000000)

\* C15: every value generated for a non-primary integer field lies in
\* [min, max], or in [0, 1000000] when the field declares no range, in the
\* files of generate_data_optimized and in the values of
\* _gen_value_by_field.
C15_IntegerRange ==
    /\ \A i \in 1..Len(IntegerFields(schema)) :
          LET f == IntegerFields(schema)[i]
              vals == KeysOf(written, f.name)
          IN  \A j \in 1..Len(vals) : InRange(f, vals[j])
    /\ (m_pc = "called" /\ Upper(m_result[1].field.type) \in IntegerTypes
            /\ m_result[1].out.ok)
          => InRange(m_result[1].field, m_result[1].out.val.v)
    /\ \A i \in 1..Len(IntegerFields(m_fields)) :
          LET f == IntegerFields(m_fields)[i]
              e == KeyEntries(m_rows_data, f.name)
          IN  \A j \in 1..Len(e) : \A c \in 1..Len(e[j]) :
                 e[j][c].value.kind = "int" => InRange(f, e[j][c].value.v)

TextTypes == {Upper(VarCharT), Upper(StringT)}

\* the non-primary text fields that declare max_length
TextFields(fields) ==
    SelectSeq(fields, LAMBDA f : /\ Upper(f.type) \in TextTypes
                                 /\ "max_length" \in DOMAIN f
                                 /\ ~Get(f, "is_primary", FALSE))

\* C16: every string generated for a VarChar or String field is at most
\* max_length characters long, in the files of generate_data_optimized and
\* in the values of _gen_value_by_field.
C16_TextLength ==
    /\ \A i \in 1..Len(TextFields(schema)) :
          LET f == TextFields(schema)[i]
              vals == KeysOf(written, f.name)
          IN  \A j \in 1..Len(vals) : Len(vals[j]) <= f.max_length
    /\ (m_pc = "called" /\ TextFields(<<m_result[1].field>>) # <<>>
            /\ m_result[1].out.ok)
          => Len(m_result[1].out.val.v) <= m_result[1].field.max_length
    /\ \A i \in 1..Len(TextFields(m_fields)) :
          LET f == TextFields(m_fields)[i]
              e == KeyEntries(m_rows_data, f.name)
          IN  \A j \in 1..Len(e) : \A c \in 1..Len(e[j]) :
                 e[j][c].value.kind = "str" => Len(e[j][c].value.v) <= f.max_length

ArrayFields(fields) == SelectSeq(fields, LAMBDA f : Upper(f.type) = Upper(ArrayT))

Capacity(f) == Get(f, "max_capacity", 5)

\* C17: every array generated has at most max_capacity elements, and at
\* least 1 in _gen_value_by_field (0 in generate_data_optimized).
C17_ArrayLength ==
    /\ \A i \in 1..Len(ArrayFields(schema)) :
          LET f == ArrayFields(schema)[i]
              vals == KeysOf(written, f.name)
          IN  \A j \in 1..Len(vals) :
                 0 <= Len(vals[j]) /\ Len(vals[j]) <= Capacity(f)
    /\ (m_pc = "called" /\ ArrayFields(<<m_result[1].field>>) # <<>>
            /\ m_result[1].out.ok)
          => /\ 1 <= Len(m_result[1].out.val.v)
             /\ Len(m_result[1].out.val.v) <= Capacity(m_result[1].field)
    /\ \A i \in 1..Len(ArrayFields(m_fields)) :
          LET f == ArrayFields(m_fields)[i]
              e == KeyEntries(m_rows_data, f.name)
          IN  \A j \in 1..Len(e) : \A c \in 1..Len(e[j]) :
                 e[j][c].value.kind = "list" =>
                    /\ 1 <= Len(e[j][c].value.v)
                    /\ Len(e[j][c].value.v) <= Capacity(f)

\* a file whose arrays are full (2 integers, 3 strings) next to one whose
\* capacity is 0
C17_Witness ==
    /\ Returned
    /\ schema = SchemaArrays
    /\ written # <<>>
    /\ \E j \in 1..Len(KeysOf(written, "tags")) :
          /\ Len(KeysOf(written, "tags")[j]) = 2
          /\ Len(KeysOf(written, "names")[j]) = 3
          /\ Len(KeysOf(written, "none")[j]) = 0

ElementType(f) == Upper(Get(f, "element_type", <<"I", "n", "t", "3", "2">>))

\* the kind of array the declared element type asks for
ExpectedArrayKind(f) ==
    IF ElementType(f) \in IntegerTypes THEN "int_array"
    ELSE IF ElementType(f) \in {Upper(FloatT), Upper(DoubleT)} THEN "float_array"
    ELSE IF ElementType(f) = Upper(BoolT) THEN "bool_array"
    ELSE "str_array"

\* the kind of value the declared element type asks for
ExpectedElementKind(f) ==
    IF ElementType(f) \in IntegerTypes THEN "int"
    ELSE IF ElementType(f) \in {Upper(FloatT), Upper(DoubleT)} THEN "float"
    ELSE IF ElementType(f) = Upper(BoolT) THEN "bool"
    ELSE "str"

\* the columns of field `name` in the files written
ColumnsOf(files, name) ==
    [k \in 1..Len(files) |->
        SelectSeq(files[k].columns, LAMBDA col : col.name = name)]

\* C18: the elements of a generated array are values of the declared
\* element_type (integers, reals, booleans, or text no longer than the
\* forwarded max_length), in generate_data_optimized and in
\* _gen_value_by_field.
C18_ElementType ==
    /\ \A i \in 1..Len(ArrayFields(schema)) :
          LET f == ArrayFields(schema)[i]
              cols == ColumnsOf(written, f.name)
          IN  \A k \in 1..Len(cols) : \A c \in 1..Len(cols[k]) :
                 /\ cols[k][c].kind = ExpectedArrayKind(f)
                 /\ (ElementType(f) \in TextTypes /\ "max_length" \in DOMAIN f) =>
                       \A r \in 1..Len(cols[k][c].vals) :
                          \A e \in 1..Len(cols[k][c].vals[r]) :
                             Len(cols[k][c].vals[r][e]) <= f.max_length
    /\ (m_pc = "called" /\ ArrayFields(<<m_result[1].field>>) # <<>>
            /\ m_result[1].out.ok)
          => LET f == m_result[1].field
                 arr == m_result[1].out.val.v
             IN  \A e \in 1..Len(arr) :
                    /\ arr[e].kind = ExpectedElementKind(f)
                    /\ (arr[e].kind = "str" /\ "max_length" \in DOMAIN f) =>
                          Len(arr[e].v) <= f.max_length

\* the spellings of the type tags generate_data_optimized has a branch for
DispatchedTags ==
    {Int64T, FloatT, DoubleT, BoolT, VarCharT, StringT, JsonT, ArrayT,
     FloatVectorT, BinaryVectorT, Int8VectorT, Float16VectorT, BFloat16VectorT}

\* C19: a field whose type differs from a supported type tag in letter case
\* only is generated like that type: generate_data_optimized writes a column
\* for it in every file, and _gen_value_by_field returns what it returns for
\* the upper-case spelling.
C19_CaseInsensitive ==
    /\ \A i \in 1..Len(schema) :
          (\E t \in DispatchedTags : Upper(t) = Upper(schema[i].type)) =>
              \A k \in 1..Len(written) :
                  \E c \in 1..Len(written[k].columns) :
                      written[k].columns[c].name = schema[i].name
    /\ m_pc = "called" =>
          LET f == m_result[1].field
              same == gen_value_by_field([f EXCEPT !.type = Upper(f.type)], 0)
          IN  /\ m_result[1].out.ok = same.ok
              /\ same.ok => m_result[1].out.val.kind = same.val.kind

\* the separator-less names of the vector types, and their canonical names
VectorAliases ==
    {FloatVectorT, BinaryVectorT, Int8VectorT, Float16VectorT, BFloat16VectorT,
     SparseFloatVectorT}
CanonicalVectorNames ==
    {<<"F", "L", "O", "A", "T", "_", "V", "E", "C", "T", "O", "R">>, <<"B", "I", "N", "A", "R", "Y", "_", "V", "E", "C", "T", "O", "R">>, <<"I", "N", "T", "8", "_", "V", "E", "C", "T", "O", "R">>, <<"F", "L", "O", "A", "T", "1", "6", "_", "V", "E", "C", "T", "O", "R">>,
     <<"B", "F", "L", "O", "A", "T", "1", "6", "_", "V", "E", "C", "T", "O", "R">>, <<"S", "P", "A", "R", "S", "E", "_", "F", "L", "O", "A", "T", "_", "V", "E", "C", "T", "O", "R">>}

IsVectorName(t) ==
    \/ \E a \in VectorAliases : Upper(a) = Upper(t)
    \/ Upper(t) \in CanonicalVectorNames

\* C20: the canonicalization maps the alias of every supported vector type,
\* in any letter case, to the canonical name that the dispatch of
\* _gen_value_by_field accepts, and maps a canonical name to itself.
C20_Canonicalization ==
    (m_pc = "called" /\ IsVectorName(m_result[1].field.type)) =>
        LET t == m_result[1].field.type
        IN  /\ CanonicalType(t) \in CanonicalVectorNames
            /\ CanonicalType(CanonicalType(t)) = CanonicalType(t)
            /\ m_result[1].out.ok

\* C21: a schema document that is a bare list of fields is processed like
\* the object {"fields": [...]}: its run raises only where the run of the
\* object raises (no rows fit a file, or the format is not supported), and
\* otherwise returns with the manifest written.
C21_BareListAccepted ==
    (document = "list" /\ Ended) =>
        /\ pc = "raised" => (Cap = 0 \/ Lower(format) \notin {ParquetF, JsonF})
        /\ Returned => meta # <<>>

(***************************************************************************)
(* ZillizImporter                                                          *)
(***************************************************************************)
ImportRaised(t, a) ==
    /\ z_pc = "raised"
    /\ z_error # <<>>
    /\ z_error[1].type = t
    /\ z_error[1].arg = a

\* the target collection of the call, where the directory names one
TargetName ==
    IF collection_name # <<>> THEN collection_name
    ELSE IF data_path.exists /\ data_path.meta # <<>>
            /\ "collection_name" \in DOMAIN data_path.meta[1]
    THEN <<data_path.meta[1].collection_name>>
    ELSE <<>>

PreconditionFails ==
    \/ ~data_path.exists
    \/ data_path.meta = <<>>
    \/ TargetName # <<>> /\ TargetName[1] \in collections /\ ~drop_if_exists

\* what import_data does from its entry when a precondition fails
PreconditionStep ==
    (z_pc = "entry" /\ z_pc' # "entry" /\ PreconditionFails) =>
        /\ z_pc' = "raised"
        /\ z_error' # <<>>
        /\ z_error'[1].type =
              IF ~data_path.exists \/ data_path.meta = <<>>
              THEN "FileNotFoundError" ELSE "ValueError"
        /\ calls' = <<>>
        /\ collections' = collections

\* C22: import_data raises FileNotFoundError when the data path does not
\* exist or holds no meta.json, and ValueError when the target collection
\* exists and drop_if_exists is false; in the three cases no remote call
\* that drops, creates or inserts has been made and the collections of the
\* database are the ones it had.
C22_PreconditionFailures == [][PreconditionStep]_vars

C22_Witness ==
    /\ ImportRaised("ValueError", <<"a", "l", "r", "e", "a", "d", "y", " ", "e", "x", "i", "s", "t", "s">>)
    /\ collections = {DemoName}
    /\ ~drop_if_exists
    /\ calls = <<>>

TypeVocabulary ==
    {BoolT, Int8T, Int16T, Int32T, Int64T, FloatT, DoubleT, VarCharT, StringT,
     JsonT, ArrayT, FloatVectorT, BinaryVectorT, Int8VectorT, Float16VectorT,
     BFloat16VectorT, SparseFloatVectorT}

\* C23: _get_milvus_datatype returns a Milvus DataType for every type name
\* of the supported vocabulary, Int8Vector included, and raises ValueError
\* "Unknown field type" for every other name.
C23_DatatypeVocabulary ==
    z_pc = "called" =>
        IF field_type \in TypeVocabulary
        THEN z_result[1].ok /\ z_result[1].val \in DataTypeMembers
        ELSE /\ ~z_result[1].ok
             /\ z_result[1].err.type = "ValueError"
             /\ Contains(z_result[1].err.arg, <<"U", "n", "k", "n", "o", "w", "n", " ", "f", "i", "e", "l", "d", " ", "t", "y", "p", "e">>)

RowsOfBatch(fb) ==
    LET file == CHOOSE f \in {data_path.parquet[k] : k \in 1..Len(data_path.parquet)} :
                    f.name = fb.file
    IN  Min2(z_batch_size, file.rows - fb.batch * z_batch_size)

RECURSIVE FailedRows(_)
FailedRows(fbs) ==
    IF fbs = <<>> THEN 0 ELSE RowsOfBatch(fbs[1]) + FailedRows(Tail(fbs))

RECURSIVE TotalRows(_)
TotalRows(files) ==
    IF files = <<>> THEN 0 ELSE files[1].rows + TotalRows(Tail(files))

\* C28: when import_data returns, total_inserted plus the rows of the
\* batches recorded in failed_batches is the number of rows of all the
\* parquet files read, and the final flush comes before every index
\* creation and before the load.
C28_FailedBatchAccounting ==
    z_pc = "returned" =>
        /\ z_result[1].total_inserted + FailedRows(z_result[1].failed_batches)
              = TotalRows(data_path.parquet)
        /\ \E k \in 1..Len(calls) :
              /\ calls[k].op = "flush"
              /\ \A j \in 1..Len(calls) :
                    calls[j].op \in {"create_index", "load"} => k < j

\* C29: when import_data raises FileNotFoundError because the directory
\* holds no parquet file, no collection has been dropped or created.
C29_NoParquetLeavesDatabase ==
    ImportRaised("FileNotFoundError", <<"N", "o", " ", "p", "a", "r", "q", "u", "e", "t", " ", "f", "i", "l", "e", "s", " ", "f", "o", "u", "n", "d">>) => calls = <<>>

\* C30: importing a directory the engine has just produced never fails on
\* the structure of the manifest: the keys import_data reads from meta.json
\* (collection_name, fields) are where the engine wrote them.
C30_ManifestConsumable ==
    (data_path.origin = "engine" /\ z_pc = "raised") => z_error[1].type # "KeyError"

\* C25: a run with total_rows > 0 and batch_size > 0 in a supported format
\* never raises, whatever max_rows_per_file is: remaining_rows never
\* becomes negative, and the run returns with remaining_rows = 0 and the
\* manifest written.
C25_LoopTerminates ==
    (rows > 0 /\ batch_size > 0 /\ Supported(format)) =>
        /\ pc # "raised"
        /\ remaining_rows >= 0
        /\ Returned => (remaining_rows = 0 /\ meta # <<>>)

FloatVectorFields(fields) ==
    SelectSeq(fields, LAMBDA f : CanonicalType(f.type) = <<"F", "L", "O", "A", "T", "_", "V", "E", "C", "T", "O", "R">>)

\* the squared L2 norm of a vector of _gen_value_by_field is 1: its
\* components are the draws v[j] / DrawMod of np.random.random
UnitList(arr) == SumSq([e \in 1..Len(arr) |-> arr[e].v]) = DrawMod * DrawMod

\* C24: every FloatVector generated has dim components and L2 norm 1, in
\* the files of generate_data_optimized and in the values of
\* _gen_value_by_field.
C24_UnitNorm ==
    /\ \A i \in 1..Len(FloatVectorFields(schema)) :
          LET f == FloatVectorFields(schema)[i]
              cols == ColumnsOf(written, f.name)
          IN  \A k \in 1..Len(cols) : \A c \in 1..Len(cols[k]) :
                 \A r \in 1..Len(cols[k][c].vals) :
                    /\ Len(cols[k][c].vals[r].num) = Get(f, "dim", DefaultDim)
                    /\ SumSq(cols[k][c].vals[r].num) = cols[k][c].vals[r].den2
    /\ (m_pc = "called" /\ FloatVectorFields(<<m_result[1].field>>) # <<>>
            /\ m_result[1].out.ok)
          => /\ Len(m_result[1].out.val.v) = Get(m_result[1].field, "dim", DefaultDim)
             /\ UnitList(m_result[1].out.val.v)

\* the part of C24 that is about generate_data_optimized
UnitNormOptimized ==
    \A i \in 1..Len(FloatVectorFields(schema)) :
        LET f == FloatVectorFields(schema)[i]
            cols == ColumnsOf(written, f.name)
        IN  \A k \in 1..Len(cols) : \A c \in 1..Len(cols[k]) :
               \A r \in 1..Len(cols[k][c].vals) :
                  /\ cols[k][c].kind = "unit_float32"
                  /\ Len(cols[k][c].vals[r].num) = Get(f, "dim", DefaultDim)
                  /\ SumSq(cols[k][c].vals[r].num) = cols[k][c].vals[r].den2

(***************************************************************************)
(* MilvusBulkImporter.wait_for_completion                                  *)
(***************************************************************************)
CompletedStates == {"ImportCompleted", "Completed"}
FailedStates == {"ImportFailed", "Failed"}
TerminalStates == CompletedStates \cup FailedStates

LastPoll == IF w_polls = <<>> THEN "none" ELSE w_polls[Len(w_polls)]

\* C26: wait_for_completion returns True only if its last poll reported
\* ImportCompleted or Completed, has returned False once a poll reported
\* ImportFailed or Failed, makes no poll after the first terminal state it
\* observes, and with and without the progress bar ends the same way for
\* the same sequence of polled states.
C26_WaitResult ==
    /\ (w_pc = "returned" /\ w_result = <<TRUE>>) => LastPoll \in CompletedStates
    /\ LastPoll \in FailedStates => (w_pc = "returned" /\ w_result = <<FALSE>>)
    /\ LastPoll \in CompletedStates => (w_pc = "returned" /\ w_result = <<TRUE>>)
    /\ \A k \in 1..(Len(w_polls) - 1) : w_polls[k] \notin TerminalStates
    /\ (w_run = 2 /\ WaitEnded /\ w_first[1].polls = w_polls) =>
          (w_first[1].pc = w_pc /\ w_first[1].result = w_result)

C26_Witness ==
    /\ w_run = 2
    /\ w_pc = "returned"
    /\ w_result = <<FALSE>>
    /\ Len(w_polls) = 2
    /\ LastPoll = "Failed"
    /\ w_first[1].polls = w_polls

\* C27: wait_for_completion returns False, without raising, whenever the
\* timeout has elapsed with no terminal state observed, also when it has
\* elapsed before the first poll (timeout <= 0).
C27_TimeoutReturnsFalse ==
    (WaitEnded /\ LastPoll \notin TerminalStates \cup {"raises"}) =>
        (w_pc = "returned" /\ w_result = <<FALSE>>)
====
